---- MODULE Spec2Model ----
(***************************************************************************)
(* Model of the Hive account faucet backend: the block pump and request    *)
(* pipeline of backend/services/blockchain-monitor.js, the quota ledger of *)
(* backend/services/user-manager.js with the admin tool of                 *)
(* backend/admin.js, and the e-mail channel of email-service.js.           *)
(*                                                                         *)
(* Files on disk are variables that survive a crash; the fields of the     *)
(* BlockchainMonitor object and the locals of processAccountRequest are    *)
(* variables that a crash resets.  Every await of the pipeline is a        *)
(* position of pc.                                                         *)
(***************************************************************************)
EXTENDS Integers, Sequences, FiniteSets, TLC

(***************************************************************************)
(* Bounds of the model.                                                    *)
(***************************************************************************)
MaxHeight == 2     \* heights of the modelled ledger: blocks 1..MaxHeight
MaxOps == 2        \* operations carried by the modelled ledger, all blocks together
MaxTokens == 2     \* largest token allocation in an initial quota ledger
MaxCrashes == 1    \* process crashes in one behaviour
MaxAdmin == 2      \* largest |n| the admin tool is called with
MaxAlloc == 6      \* largest |tokens_allocated| the admin tool is driven to
MaxDrift == 1      \* largest gap between a total of the metadata and the users' sum
MaxLoops == 2      \* invocations of start() pending at one time
MaxChain == 4      \* largest head_block_number of the pump on its own
MaxEnv == 1        \* largest LAST_PROCESSED_BLOCK of the pump on its own

(***************************************************************************)
(* Program constants.                                                      *)
(***************************************************************************)
blockSaveInterval == 2      \* BLOCK_SAVE_INTERVAL of the modelled deployment
defaultTokens == 5          \* admin.js: parseInt(args[2]) || 5
minimumRequired == 1        \* canSendMemo: 0.001 HBD, counted in 1/1000 HBD

(***************************************************************************)
(* Values.                                                                 *)
(***************************************************************************)
UserNames == {"alice", "bob"}            \* names the quota ledger may hold
Requesters == UserNames \cup {"mallory"} \* signers seen on the ledger
Usernames == {"newuser1", "newuser2"}    \* requested account names
Methods == {"email", "hive_memo", "both"}
Passwords == <<"P5aaa", "P5bbb", "P5ccc">> \* generateMasterPassword results
Null == "null"                           \* JavaScript null / undefined
Emails == {Null, "", "  ", "alice@example.org"}

\* String.prototype.trim on the modelled strings.
Trim(s) == IF s = "  " THEN "" ELSE s

\* JavaScript truthiness of a modelled string-or-null value.
Truthy(s) == s # Null /\ s # ""

Range(s) == {s[i] : i \in 1..Len(s)}

(***************************************************************************)
(* UserManager (user-manager.js).  authorized_users.json is                *)
(*   [ok, authorized_users, metadata]                                      *)
(* where ok = FALSE is a file that cannot be read or parsed, and           *)
(* authorized_users is a function whose domain is the set of its keys.     *)
(* A total of the metadata that was written as NaN is read back as null:   *)
(* allocated_null, with total_tokens_allocated = 0, the number that null   *)
(* counts for in an addition.                                              *)
(***************************************************************************)
NoUserInfo ==
    [tokens_allocated |-> 0, tokens_used |-> 0, tokens_remaining |-> 0,
     email |-> Null, is_active |-> FALSE]

EmptyFn == [x \in {} |-> NoUserInfo]

\* ensureDataFile: the file written when none exists.
initialData ==
    [ok |-> TRUE, authorized_users |-> EmptyFn,
     metadata |-> [total_users |-> 0, total_tokens_allocated |-> 0,
                   total_tokens_used |-> 0, allocated_null |-> FALSE]]

\* loadData: the parsed file, or null (ok = FALSE).
loadData(file) == file

\* saveData: the file after fs.writeFileSync, which either replaces it or throws.
saveData(file, data, writeOk) ==
    [file |-> IF writeOk THEN data ELSE file, ret |-> writeOk]

\* The property names authorized_users, a plain object, inherits from
\* Object.prototype: data.authorized_users[name] is then a function, which is
\* truthy and has none of the fields of a user record.
Inherited == {"constructor"}

\* username is a key of authorized_users.
Known(data, username) == data.ok /\ username \in DOMAIN data.authorized_users

\* data && data.authorized_users[username] is truthy.
Found(data, username) ==
    data.ok /\ (username \in DOMAIN data.authorized_users \/ username \in Inherited)

checkAuthorization_eq0(file, username) ==
    LET data == loadData(file) IN
    IF ~data.ok
    THEN [authorized |-> FALSE, reason |-> "Database error", user_info |-> NoUserInfo]
    ELSE IF ~Found(data, username)
    THEN [authorized |-> FALSE, reason |-> "User not found in authorized list",
          user_info |-> NoUserInfo]
    ELSE IF ~Known(data, username)
    THEN [authorized |-> FALSE, reason |-> "User account is deactivated",
          user_info |-> NoUserInfo]
    ELSE LET user == data.authorized_users[username] IN
         IF ~user.is_active
         THEN [authorized |-> FALSE, reason |-> "User account is deactivated",
               user_info |-> NoUserInfo]
         ELSE IF user.tokens_remaining = 0
         THEN [authorized |-> FALSE, reason |-> "No tokens remaining",
               user_info |-> NoUserInfo]
         ELSE [authorized |-> TRUE, reason |-> "", user_info |-> user]

checkAuthorization(file, username) ==
    LET data == loadData(file) IN
    IF ~data.ok
    THEN [authorized |-> FALSE, reason |-> "Database error", user_info |-> NoUserInfo]
    ELSE IF ~Found(data, username)
    THEN [authorized |-> FALSE, reason |-> "User not found in authorized list",
          user_info |-> NoUserInfo]
    ELSE IF ~Known(data, username)
    THEN [authorized |-> FALSE, reason |-> "User account is deactivated",
          user_info |-> NoUserInfo]
    ELSE LET user == data.authorized_users[username] IN
         IF ~user.is_active
         THEN [authorized |-> FALSE, reason |-> "User account is deactivated",
               user_info |-> NoUserInfo]
         ELSE IF user.tokens_remaining <= 0
         THEN [authorized |-> FALSE, reason |-> "No tokens remaining",
               user_info |-> NoUserInfo]
         ELSE [authorized |-> TRUE, reason |-> "", user_info |-> user]

useToken(file, username, writeOk) ==
    LET data == loadData(file) IN
    IF ~Found(data, username)
    THEN [file |-> file, ret |-> FALSE]
    ELSE IF ~Known(data, username)
    \* undefined <= 0 is false; the fields land on the inherited object.
    THEN saveData(file, [data EXCEPT !.metadata.total_tokens_used = @ + 1], writeOk)
    ELSE LET user == data.authorized_users[username] IN
         IF user.tokens_remaining <= 0
         THEN [file |-> file, ret |-> FALSE]
         ELSE saveData(file,
                [data EXCEPT
                   !.authorized_users[username].tokens_used = @ + 1,
                   !.authorized_users[username].tokens_remaining = @ - 1,
                   !.metadata.total_tokens_used = @ + 1],
                writeOk)

addUser(file, username, tokens, writeOk) ==
    LET data == loadData(file) IN
    IF ~data.ok THEN [file |-> file, ret |-> FALSE]
    ELSE IF Found(data, username)
    THEN [file |-> file, ret |-> FALSE]
    ELSE saveData(file,
           [data EXCEPT
              !.authorized_users =
                  [u \in DOMAIN data.authorized_users \cup {username} |->
                     IF u = username
                     THEN [tokens_allocated |-> tokens, tokens_used |-> 0,
                           tokens_remaining |-> tokens, email |-> Null,
                           is_active |-> TRUE]
                     ELSE data.authorized_users[u]],
              !.metadata.total_users = @ + 1,
              !.metadata.total_tokens_allocated = @ + tokens,
              !.metadata.allocated_null = FALSE],
           writeOk)

giveTokens(file, username, additionalTokens, writeOk) ==
    LET data == loadData(file) IN
    IF ~Found(data, username)
    THEN [file |-> file, ret |-> FALSE]
    ELSE IF ~Known(data, username)
    THEN saveData(file,
           [data EXCEPT
              !.metadata.total_tokens_allocated = @ + additionalTokens,
              !.metadata.allocated_null = FALSE],
           writeOk)
    ELSE saveData(file,
           [data EXCEPT
              !.authorized_users[username].tokens_allocated = @ + additionalTokens,
              !.authorized_users[username].tokens_remaining = @ + additionalTokens,
              !.metadata.total_tokens_allocated = @ + additionalTokens,
              !.metadata.allocated_null = FALSE],
           writeOk)

setTokens_noUsed(file, username, newTotal, writeOk) ==
    LET data == loadData(file) IN
    IF ~Found(data, username)
    THEN [file |-> file, ret |-> FALSE]
    ELSE IF ~Known(data, username)
    \* difference = newTotal - undefined = NaN, and JSON.stringify writes null.
    THEN saveData(file,
           [data EXCEPT
              !.metadata.total_tokens_allocated = 0,
              !.metadata.allocated_null = TRUE],
           writeOk)
    ELSE LET user == data.authorized_users[username]
             difference == newTotal - user.tokens_allocated IN
         saveData(file,
           [data EXCEPT
              !.authorized_users[username].tokens_allocated = newTotal,
              !.authorized_users[username].tokens_remaining = newTotal,
              !.metadata.total_tokens_allocated = @ + difference,
              !.metadata.allocated_null = FALSE],
           writeOk)

setTokens(file, username, newTotal, writeOk) ==
    LET data == loadData(file) IN
    IF ~Found(data, username)
    THEN [file |-> file, ret |-> FALSE]
    ELSE IF ~Known(data, username)
    \* difference = newTotal - undefined = NaN, and JSON.stringify writes null.
    THEN saveData(file,
           [data EXCEPT
              !.metadata.total_tokens_allocated = 0,
              !.metadata.allocated_null = TRUE],
           writeOk)
    ELSE LET user == data.authorized_users[username]
             difference == newTotal - user.tokens_allocated IN
         saveData(file,
           [data EXCEPT
              !.authorized_users[username].tokens_allocated = newTotal,
              !.authorized_users[username].tokens_remaining = newTotal - user.tokens_used,
              !.metadata.total_tokens_allocated = @ + difference,
              !.metadata.allocated_null = FALSE],
           writeOk)

setUserStatus(file, username, isActive, writeOk) ==
    LET data == loadData(file) IN
    IF ~Found(data, username)
    THEN [file |-> file, ret |-> FALSE]
    ELSE IF ~Known(data, username)
    THEN saveData(file, data, writeOk)
    ELSE saveData(file,
           [data EXCEPT !.authorized_users[username].is_active = isActive],
           writeOk)

(***************************************************************************)
(* The recovery store pending_credentials.json: [ok, pending], ok = FALSE  *)
(* is a file that cannot be read or parsed.                                *)
(***************************************************************************)
emptyPending == [ok |-> TRUE, pending |-> <<>>]
corruptFile == [ok |-> FALSE, pending |-> <<>>]

loadPending(file) == IF file.ok THEN file.pending ELSE <<>>

\* savePending: fs.writeFileSync replaces the file or throws; the throw is caught.
savePending(file, list, writeOk) ==
    IF writeOk THEN [ok |-> TRUE, pending |-> list] ELSE file

addPending(file, record, writeOk) ==
    savePending(file, Append(loadPending(file), record), writeOk)

removePending(file, username, writeOk) ==
    savePending(file,
                SelectSeq(loadPending(file), LAMBDA r : r.username # username),
                writeOk)

SecretsOf(file) == {r.masterPassword : r \in Range(loadPending(file))}

\* generateMasterPassword: 50 symbols drawn from crypto.randomBytes.  Only the
\* identity of a password matters, and a fresh draw differs from every password
\* already stored: the first password that is not in use.
generateMasterPassword(inUse) ==
    LET free == {i \in 1..Len(Passwords) : Passwords[i] \notin inUse} IN
    IF free = {} THEN Passwords[1]
    ELSE Passwords[CHOOSE i \in free : \A j \in free : i <= j]

PendingNames(file) == {r.username : r \in Range(loadPending(file))}

(***************************************************************************)
(* Key derivation and the credential record.                               *)
(***************************************************************************)
\* PrivateKey.fromSeed(username + role + masterPassword)
fromSeed(username, role, masterPassword) == <<username, role, masterPassword>>

generateAccountKeys(username, masterPassword) ==
    [ownerKey |-> fromSeed(username, "owner", masterPassword),
     activeKey |-> fromSeed(username, "active", masterPassword),
     postingKey |-> fromSeed(username, "posting", masterPassword),
     memoKey |-> fromSeed(username, "memo", masterPassword)]

NoTx == <<>>

\* accountData of processAccountRequest; the record handed to addPending carries
\* the same fields (plus created_at, a timestamp that is not modelled).
AccountData(username, masterPassword, transactionId, requester) ==
    LET keys == generateAccountKeys(username, masterPassword) IN
    [username |-> username, masterPassword |-> masterPassword,
     ownerKey |-> keys.ownerKey, activeKey |-> keys.activeKey,
     postingKey |-> keys.postingKey, memoKey |-> keys.memoKey,
     transactionId |-> transactionId, requester |-> requester]

NoAccount == AccountData(Null, Null, NoTx, Null)

(***************************************************************************)
(* Operations carried by the ledger.                                       *)
(***************************************************************************)
FaucetId == "hive_account_faucet"

\* The payload of a custom_json: email, requester and notes are data.email,
\* data.requester and data.notes, fields the sender is free to fill in.
Payload(parses, app, version, action, hasData, username, method, email) ==
    [parses |-> parses, app |-> app, version |-> version, action |-> action,
     hasData |-> hasData, requested_username |-> username,
     delivery_method |-> method, email |-> email, requester |-> Null, notes |-> Null]

CustomJson(id, posting, active, json) ==
    [kind |-> "custom_json", id |-> id, required_posting_auths |-> posting,
     required_auths |-> active, json |-> json]

\* A well-formed request signed with the posting authority of r.
Req(r, u, m) ==
    CustomJson(FaucetId, <<r>>, <<>>,
               Payload(TRUE, FaucetId, "1.0.0", "create_account_request", TRUE, u, m, Null))

validateRequest_anyVersion(data) ==
    /\ data.app = "hive_account_faucet"
    /\ data.action = "create_account_request"
    /\ data.hasData
    /\ Truthy(data.requested_username)
    /\ Truthy(data.delivery_method)

validateRequest(data) ==
    /\ data.app = "hive_account_faucet"
    /\ data.version = "1.0.0"
    /\ data.action = "create_account_request"
    /\ data.hasData
    /\ Truthy(data.requested_username)
    /\ Truthy(data.delivery_method)

\* A request that fills in data.email, data.requester and data.notes.
Claiming(operation, email, requester, notes) ==
    [operation EXCEPT !.json.email = email, !.json.requester = requester,
                      !.json.notes = notes]

requesterOf_claimed(operation) ==
    IF Truthy(operation.json.requester) THEN operation.json.requester
    ELSE IF Len(operation.required_posting_auths) > 0 THEN operation.required_posting_auths[1]
    ELSE IF Len(operation.required_auths) > 0 THEN operation.required_auths[1] ELSE Null

\* operation.required_posting_auths[0] || operation.required_auths[0]
requesterOf(operation) ==
    IF Len(operation.required_posting_auths) > 0 /\ Truthy(operation.required_posting_auths[1])
    THEN operation.required_posting_auths[1]
    ELSE IF Len(operation.required_auths) > 0 THEN operation.required_auths[1] ELSE Null

NoRequest == [requester |-> Null, requested_username |-> Null, delivery_method |-> Null]

\* const overallSuccess = (deliveryMethod === 'both') ? (a && b) : (a || b)
overallSuccessOf_any(deliveryMethod, emailSuccess, memoSuccess) ==
    emailSuccess \/ memoSuccess

overallSuccessOf(deliveryMethod, emailSuccess, memoSuccess) ==
    IF deliveryMethod = "both"
    THEN emailSuccess /\ memoSuccess
    ELSE emailSuccess \/ memoSuccess

(***************************************************************************)
(* State.                                                                  *)
(***************************************************************************)
VARIABLES
    \* files of backend/data
    dataFile,            \* authorized_users.json
    pendingFile,         \* pending_credentials.json
    lastBlockFile,       \* last_block.json: lastProcessedBlock, 0 when there is no file
    \* the Hive ledger
    ledgerOps,           \* the operations the ledger carries, in ledger order
    ledgerAt,            \* ledgerAt[i]: height of the block that carries ledgerOps[i]
    head,                \* head_block_number
    accounts,            \* account names that exist on the ledger
    \* configuration read from the environment by the constructors
    creatingMemoKey,     \* CREATING_ACCOUNT_MEMO_KEY is set
    emailConfigured,     \* EmailService.isConfigured
    envBlock,            \* parseInt(process.env.LAST_PROCESSED_BLOCK) || 0
    \* fields of BlockchainMonitor
    isRunning,
    lastProcessedBlock,
    lastSavedBlock,      \* _lastSavedBlock, 0 while undefined
    \* position of the process
    pc,
    nextBlock,           \* streamBlocks: nextBlock
    opIdx,               \* processBlock: position in the block's operations
    \* locals of processAccountRequest
    request,
    authCheck,
    accountData,
    emailResult,
    memoResult,
    overallSuccess,
    tokenUsed,
    outcome,             \* how the request that just returned ended
    \* history
    creations,           \* creations[u]: successful create_claimed_account broadcasts for u
    tokenUses,           \* tokenUses[i]: useToken calls that returned true for ledgerOps[i]
    removeCalls,         \* removeCalls[u]: removePending(u) calls
    delivered,           \* names whose delivery ended with overallSuccess true
    attempted,           \* calls made for the current request
    snap,                \* <<dataFile, pendingFile>> when the current request began
    crashes,
    owed,                \* the record in flight when the process crashed during delivery
    sent,                \* the mails handed to sendMail and the transfers broadcast
    \* the invocations of start() / streamBlocks() of one process
    loops,               \* loops[i]: the await invocation i is at, and its nextBlock
    completed,           \* heights whose processBlock has completed
    origins,             \* starting heights: LAST_PROCESSED_BLOCK, and what start() took from the head
    resume               \* the cursor the constructor loaded, and the first height fetched since

disk == <<dataFile, pendingFile, lastBlockFile>>
ledger == <<ledgerOps, ledgerAt, head, accounts>>
config == <<creatingMemoKey, emailConfigured, envBlock>>
monitor == <<isRunning, lastProcessedBlock, lastSavedBlock>>
control == <<pc, nextBlock, opIdx>>
locals == <<request, authCheck, accountData, emailResult, memoResult,
            overallSuccess, tokenUsed, outcome>>
history == <<creations, tokenUses, removeCalls, delivered, attempted, snap,
             crashes, owed, sent>>
pump == <<loops, completed, origins, resume>>
vars == <<disk, ledger, config, pump, monitor, control, locals, history>>

NoResult == [success |-> FALSE, error |-> ""]
NoSnap == <<initialData, emptyPending>>
NoAuth == [authorized |-> FALSE, reason |-> "", user_info |-> NoUserInfo]

\* Invocations of start() that can be pending at one time.
Loops == 1..MaxLoops

\* An invocation that has returned, or was never made.  retry is the height
\* whose getBlock came back empty or threw, 0 when the last getBlock gave a block.
Idle == [at |-> "idle", nextBlock |-> 0, retry |-> 0]
NoLoops == [i \in Loops |-> Idle]
\* after: how the process before this one ended; prepared: the constructors
\* left authorized_users.json and pending_credentials.json in place.
NoResume == [cursor |-> 0, first |-> 0, after |-> "none", prepared |-> TRUE]
NoPump == loops = NoLoops /\ completed = {} /\ origins = {} /\ resume = NoResume

\* Heights of n operations in ledger order.
HeightsOf(n) ==
    {h \in [1..n -> 1..MaxHeight] : \A i \in 1..n : \A j \in 1..n : i <= j => h[i] <= h[j]}

First(h) == Cardinality({i \in 1..Len(ledgerOps) : ledgerAt[i] < h})
BlockLen(h) == Cardinality({i \in 1..Len(ledgerOps) : ledgerAt[i] = h})
OpAt(h, k) == ledgerOps[First(h) + k]

(***************************************************************************)
(* Initial states: the files a deployment starts from and the operations   *)
(* its ledger carries.                                                     *)
(***************************************************************************)
UserRec(alloc, used, email, active) ==
    [tokens_allocated |-> alloc, tokens_used |-> used,
     tokens_remaining |-> alloc - used, email |-> email, is_active |-> active]

\* A quota ledger holding alice and bob, as the admin tool leaves it.
QuotaOf(a, b) ==
    [ok |-> TRUE,
     authorized_users |-> [u \in UserNames |-> IF u = "alice" THEN a ELSE b],
     metadata |-> [total_users |-> 2,
                   total_tokens_allocated |-> a.tokens_allocated + b.tokens_allocated,
                   total_tokens_used |-> a.tokens_used + b.tokens_used,
                   allocated_null |-> FALSE]]

BobRec == UserRec(1, 0, Null, TRUE)

AliceRecs ==
    {UserRec(alloc, used, email, active) :
        alloc \in 0..MaxTokens, used \in 0..1,
        email \in Emails, active \in BOOLEAN}

BadJson == CustomJson(FaucetId, <<"alice">>, <<>>,
                      Payload(FALSE, Null, Null, Null, FALSE, Null, Null, Null))
BadVersion == CustomJson(FaucetId, <<"alice">>, <<>>,
                  Payload(TRUE, FaucetId, "0.9.0", "create_account_request", TRUE,
                          "newuser1", "email", Null))
OtherApp == CustomJson("follow", <<"alice">>, <<>>,
                  Payload(TRUE, "follow", "1.0.0", "follow", TRUE, Null, Null, Null))
Transfer == [kind |-> "transfer", id |-> Null, required_posting_auths |-> <<>>,
             required_auths |-> <<"alice">>,
             json |-> Payload(FALSE, Null, Null, Null, FALSE, Null, Null, Null)]

\* One operation, any requester and delivery method, any quota record of alice.
SingleOps ==
    {Req(r, "newuser1", m) : r \in Requesters, m \in Methods \cup {"sms"}}
      \cup {BadJson, BadVersion, OtherApp, Transfer}

\* Several operations, from fewer shapes.
SeveralOps ==
    {Req("alice", "newuser1", "email"), Req("alice", "newuser2", "hive_memo"), BadJson}

InitFiles ==
    /\ pendingFile = emptyPending
    /\ lastBlockFile = 0

InitLedgerSingle ==
    /\ ledgerOps \in [1..1 -> SingleOps]
    /\ ledgerAt = <<1>>
    /\ dataFile \in {QuotaOf(a, BobRec) : a \in AliceRecs}
    /\ creatingMemoKey \in BOOLEAN
    /\ emailConfigured \in BOOLEAN
    /\ envBlock = 0

InitLedgerSeveral ==
    /\ \E n \in 2..MaxOps :
         /\ ledgerOps \in [1..n -> SeveralOps]
         /\ ledgerAt \in HeightsOf(n)
    /\ dataFile = QuotaOf(UserRec(1, 0, "alice@example.org", TRUE), BobRec)
    /\ creatingMemoKey = TRUE
    /\ emailConfigured = TRUE
    /\ envBlock = 0

\* One custom_json operation of any shape: a payload that does not parse, or
\* one with each field of the schema right, wrong or missing (a missing field
\* reads as undefined: Null), signed with the posting or the active authority.
IntakePayloads ==
    {Payload(TRUE, app, version, action, TRUE, username, method, Null) :
        app \in {FaucetId, "follow"}, version \in {"1.0.0", "0.9.0"},
        action \in {"create_account_request", "delete_account_request"},
        username \in {Null, "", "newuser1"}, method \in {Null, "", "both", "sms"}}
      \cup {Payload(TRUE, app, version, action, FALSE, Null, Null, Null) :
               app \in {FaucetId, Null}, version \in {"1.0.0", Null},
               action \in {"create_account_request", Null}}
      \cup {Payload(FALSE, Null, Null, Null, FALSE, Null, Null, Null)}

IntakeOps ==
    {CustomJson(id, signers[1], signers[2], json) :
        id \in {FaucetId, "follow"},
        signers \in {<<(<<"alice">>), (<<>>)>>, <<(<<>>), (<<"alice">>)>>},
        json \in IntakePayloads}

InitLedgerIntake ==
    /\ ledgerOps \in [1..1 -> IntakeOps]
    /\ ledgerAt = <<1>>
    /\ dataFile \in {QuotaOf(UserRec(alloc, 0, email, TRUE), BobRec) :
                        alloc \in 0..1, email \in {Null, "alice@example.org"}}
    /\ creatingMemoKey \in BOOLEAN
    /\ emailConfigured \in BOOLEAN
    /\ envBlock = 0

\* The process as its constructors leave it.
InitProcess ==
    /\ head = 1
    /\ accounts = {}
    /\ isRunning = FALSE
    /\ lastProcessedBlock = 0
    /\ lastSavedBlock = 0
    /\ pc = "start"
    /\ nextBlock = 0
    /\ opIdx = 0
    /\ request = NoRequest
    /\ authCheck = NoAuth
    /\ accountData = NoAccount
    /\ emailResult = NoResult
    /\ memoResult = NoResult
    /\ overallSuccess = FALSE
    /\ tokenUsed = FALSE
    /\ outcome = "none"
    /\ creations = [u \in Usernames |-> 0]
    /\ tokenUses = [i \in 1..Len(ledgerOps) |-> 0]
    /\ removeCalls = [u \in Usernames |-> 0]
    /\ delivered = {}
    /\ attempted = {}
    /\ snap = NoSnap
    /\ crashes = 0
    /\ owed = <<>>
    /\ sent = {}
    /\ NoPump

InitIntake ==
    /\ InitFiles
    /\ InitLedgerIntake
    /\ InitProcess

Init ==
    /\ InitFiles
    /\ InitLedgerSingle \/ InitLedgerSeveral
    /\ head = 1
    /\ accounts = {}
    /\ isRunning = FALSE
    /\ lastProcessedBlock = 0
    /\ lastSavedBlock = 0
    /\ pc = "start"
    /\ nextBlock = 0
    /\ opIdx = 0
    /\ request = NoRequest
    /\ authCheck = NoAuth
    /\ accountData = NoAccount
    /\ emailResult = NoResult
    /\ memoResult = NoResult
    /\ overallSuccess = FALSE
    /\ tokenUsed = FALSE
    /\ outcome = "none"
    /\ creations = [u \in Usernames |-> 0]
    /\ tokenUses = [i \in 1..Len(ledgerOps) |-> 0]
    /\ removeCalls = [u \in Usernames |-> 0]
    /\ delivered = {}
    /\ attempted = {}
    /\ snap = NoSnap
    /\ crashes = 0
    /\ owed = <<>>
    /\ sent = {}
    /\ NoPump

(***************************************************************************)
(* The cursor file.                                                        *)
(***************************************************************************)
\* saveLastBlock(force): the file and _lastSavedBlock after the call.  The write
\* goes to a temporary file that is renamed over last_block.json.
saveLastBlock(last, saved, file, force, writeOk) ==
    IF last <= 0 THEN [file |-> file, saved |-> saved]
    ELSE IF ~force /\ saved = last THEN [file |-> file, saved |-> saved]
    ELSE IF writeOk THEN [file |-> last, saved |-> last]
    ELSE [file |-> file, saved |-> saved]

(***************************************************************************)
(* start() and streamBlocks().                                             *)
(***************************************************************************)
ResetLocals ==
    /\ request' = NoRequest
    /\ authCheck' = NoAuth
    /\ accountData' = NoAccount
    /\ emailResult' = NoResult
    /\ memoResult' = NoResult
    /\ overallSuccess' = FALSE
    /\ tokenUsed' = FALSE

\* The locals of a request that has returned are gone, and with them what the
\* history kept about that request.
Forget ==
    /\ ResetLocals
    /\ outcome' = "none"
    /\ attempted' = {}
    /\ snap' = NoSnap

\* start(): sets isRunning, asks for the head block when there is no starting
\* point, then enters streamBlocks.
Start ==
    /\ pc = "start"
    /\ ~isRunning
    /\ isRunning' = TRUE
    /\ lastProcessedBlock' =
         IF lastProcessedBlock = 0 THEN head - 1 ELSE lastProcessedBlock
    /\ pc' = "loop"
    /\ UNCHANGED <<disk, ledger, config, pump, lastSavedBlock, nextBlock, opIdx,
                   locals, history>>

\* start(): getDynamicGlobalProperties throws; the catch clears isRunning.
StartFails ==
    /\ pc = "start"
    /\ ~isRunning
    /\ lastProcessedBlock = 0
    /\ pc' = "stopped"
    /\ UNCHANGED <<disk, ledger, config, pump, monitor, nextBlock, opIdx, locals, history>>

\* One iteration of the while loop up to the await of getBlock: a block.
GetBlock ==
    /\ pc = "loop"
    /\ isRunning
    /\ lastProcessedBlock + 1 <= head
    /\ nextBlock' = lastProcessedBlock + 1
    /\ opIdx' = 1
    /\ pc' = "block"
    /\ outcome' = "none"
    /\ UNCHANGED <<disk, ledger, config, pump, monitor, request, authCheck, accountData,
                   emailResult, memoResult, overallSuccess, tokenUsed, history>>

\* getBlock returns nothing (sleep 3 s) or throws (sleep 5 s).
GetBlockMiss ==
    /\ pc = "loop"
    /\ isRunning
    /\ nextBlock' = lastProcessedBlock + 1
    /\ pc' = "sleep"
    /\ UNCHANGED <<disk, ledger, config, pump, monitor, opIdx, locals, history>>

Wake ==
    /\ pc = "sleep"
    /\ pc' = "loop"
    /\ UNCHANGED <<disk, ledger, config, pump, monitor, nextBlock, opIdx, locals, history>>

\* processBlock has gone through every operation: the cursor advances and is
\* saved when the height is a multiple of blockSaveInterval.
EndBlock ==
    /\ pc = "block"
    /\ opIdx > BlockLen(nextBlock)
    /\ lastProcessedBlock' = nextBlock
    /\ \E writeOk \in BOOLEAN :
         LET r == IF nextBlock % blockSaveInterval = 0
                  THEN saveLastBlock(nextBlock, lastSavedBlock, lastBlockFile, FALSE, writeOk)
                  ELSE [file |-> lastBlockFile, saved |-> lastSavedBlock] IN
         /\ lastBlockFile' = r.file
         /\ lastSavedBlock' = r.saved
    /\ pc' = "loop"
    /\ Forget
    /\ UNCHANGED <<dataFile, pendingFile, ledger, config, pump, isRunning, nextBlock, opIdx,
                   creations, tokenUses, removeCalls, delivered, crashes, sent, owed>>

\* processCustomJson accepts the operation as a request.
Accepts(operation) ==
    /\ operation.kind = "custom_json"
    /\ operation.id = "hive_account_faucet"
    /\ operation.json.parses
    /\ validateRequest(operation.json)

\* processBlock / processCustomJson: an operation that is not a request of this
\* faucet (another kind, another id, JSON.parse throws, validateRequest fails).
SkipOperation_throws ==
    /\ pc = "block"
    /\ opIdx <= BlockLen(nextBlock)
    /\ ~Accepts(OpAt(nextBlock, opIdx))
    /\ pc' = "sleep"
    /\ Forget
    /\ UNCHANGED <<disk, ledger, config, pump, monitor, nextBlock, opIdx, creations,
                   tokenUses, removeCalls, delivered, crashes, sent, owed>>

SkipOperation ==
    /\ pc = "block"
    /\ opIdx <= BlockLen(nextBlock)
    /\ ~Accepts(OpAt(nextBlock, opIdx))
    /\ opIdx' = opIdx + 1
    /\ Forget
    /\ UNCHANGED <<disk, ledger, config, pump, monitor, pc, nextBlock, creations, tokenUses,
                   removeCalls, delivered, crashes, sent, owed>>

\* processCustomJson: a valid request enters processAccountRequest.
Dispatch ==
    /\ pc = "block"
    /\ opIdx <= BlockLen(nextBlock)
    /\ LET operation == OpAt(nextBlock, opIdx) IN
         /\ Accepts(operation)
         /\ request' = [requester |-> requesterOf(operation),
                        requested_username |-> operation.json.requested_username,
                        delivery_method |-> operation.json.delivery_method]
    /\ authCheck' = NoAuth
    /\ accountData' = NoAccount
    /\ emailResult' = NoResult
    /\ memoResult' = NoResult
    /\ overallSuccess' = FALSE
    /\ tokenUsed' = FALSE
    /\ outcome' = "none"
    /\ attempted' = {}
    /\ snap' = <<dataFile, pendingFile>>
    /\ pc' = "auth"
    /\ UNCHANGED <<disk, ledger, config, pump, monitor, nextBlock, opIdx, creations,
                   tokenUses, removeCalls, delivered, crashes, sent, owed>>

Return_retried(how) ==
    /\ pc' = "block"
    /\ opIdx' = opIdx
    /\ outcome' = how

\* processAccountRequest returns: processBlock goes on with the next operation.
Return(how) ==
    /\ pc' = "block"
    /\ opIdx' = opIdx + 1
    /\ outcome' = how

(***************************************************************************)
(* processAccountRequest.                                                  *)
(***************************************************************************)
\* Step 1: checkAuthorization; an unauthorized request is rejected.
Authorize ==
    /\ pc = "auth"
    /\ LET a == checkAuthorization(dataFile, request.requester) IN
         /\ authCheck' = a
         /\ IF a.authorized
            THEN /\ pc' = "create"
                 /\ UNCHANGED <<opIdx, outcome>>
            ELSE Return("unauthorized")
    /\ UNCHANGED <<disk, ledger, config, pump, monitor, nextBlock, request, accountData,
                   emailResult, memoResult, overallSuccess, tokenUsed, history>>

\* Step 2: generateMasterPassword, generateAccountKeys, and createHiveAccount up
\* to checkUsernameAvailability: the name is free and the broadcast is next.
CheckAvailable ==
    /\ pc = "create"
    /\ request.requested_username \notin accounts
    /\ LET masterPassword == generateMasterPassword(SecretsOf(pendingFile)) IN
         accountData' = AccountData(request.requested_username, masterPassword,
                                    NoTx, request.requester)
    /\ pc' = "broadcast"
    /\ UNCHANGED <<disk, ledger, config, pump, monitor, nextBlock, opIdx, request, authCheck,
                   emailResult, memoResult, overallSuccess, tokenUsed, outcome, history>>

CreateRefused_ignored ==
    /\ pc = "create"
    /\ accountData' = AccountData(request.requested_username,
                                  generateMasterPassword(SecretsOf(pendingFile)),
                                  <<"tx", request.requested_username>>,
                                  request.requester)
    /\ pc' = "persist"
    /\ UNCHANGED <<disk, ledger, config, pump, monitor, nextBlock, opIdx, request, authCheck,
                   emailResult, memoResult, overallSuccess, tokenUsed, outcome,
                   history>>

\* createHiveAccount: the name is taken, or getAccounts throws
\* (checkUsernameAvailability then answers false): success false.
CreateRefused ==
    /\ pc = "create"
    /\ Return("create_failed")
    /\ UNCHANGED <<disk, ledger, config, pump, monitor, nextBlock, request, authCheck,
                   accountData, emailResult, memoResult, overallSuccess, tokenUsed,
                   history>>

\* The transaction id of the create_claimed_account of a name.
TxOf(username) == <<"tx", username>>

\* createHiveAccount: sendOperations succeeds; the ledger accepts a name once.
BroadcastOk ==
    /\ pc = "broadcast"
    /\ accountData.username \notin accounts
    /\ accounts' = accounts \cup {accountData.username}
    /\ creations' = [creations EXCEPT ![accountData.username] = @ + 1]
    /\ accountData' = [accountData EXCEPT !.transactionId = TxOf(accountData.username)]
    /\ attempted' = attempted \cup {"sendOperations"}
    /\ pc' = "persist"
    /\ UNCHANGED <<disk, ledgerOps, ledgerAt, head, config, pump, monitor, nextBlock, opIdx,
                   request, authCheck, emailResult, memoResult, overallSuccess,
                   tokenUsed, outcome, tokenUses, removeCalls, delivered, snap,
                   crashes, sent, owed>>

BroadcastFails_persists ==
    /\ pc = "broadcast"
    /\ pendingFile' = addPending(pendingFile, accountData, TRUE)
    /\ attempted' = attempted \cup {"sendOperations"}
    /\ accountData' = NoAccount
    /\ Return("create_failed")
    /\ UNCHANGED <<dataFile, lastBlockFile, ledger, config, pump, monitor, nextBlock, request,
                   authCheck, emailResult, memoResult, overallSuccess, tokenUsed,
                   creations, tokenUses, removeCalls, delivered, snap, crashes, sent, owed>>

\* createHiveAccount: sendOperations throws (name taken meanwhile, bad key, no
\* account creation token, network): success false.
BroadcastFails ==
    /\ pc = "broadcast"
    /\ attempted' = attempted \cup {"sendOperations"}
    /\ accountData' = NoAccount
    /\ Return("create_failed")
    /\ UNCHANGED <<disk, ledger, config, pump, monitor, nextBlock, request, authCheck,
                   emailResult, memoResult, overallSuccess, tokenUsed, creations,
                   tokenUses, removeCalls, delivered, snap, crashes, sent, owed>>

\* The record processAccountRequest hands to addPending: the fields of
\* accountData, copied one by one.
PendingRecord(a) ==
    [username |-> a.username, requester |-> a.requester,
     masterPassword |-> a.masterPassword, ownerKey |-> a.ownerKey,
     activeKey |-> a.activeKey, postingKey |-> a.postingKey,
     memoKey |-> a.memoKey, transactionId |-> a.transactionId]

\* "Persist credentials to recovery store BEFORE attempting delivery".
Persist ==
    /\ pc = "persist"
    /\ \E writeOk \in BOOLEAN :
         pendingFile' = addPending(pendingFile, PendingRecord(accountData), writeOk)
    /\ attempted' = attempted \cup {"addPending"}
    /\ pc' = "email"
    /\ UNCHANGED <<dataFile, lastBlockFile, ledger, config, pump, monitor, nextBlock, opIdx,
                   locals, creations, tokenUses, removeCalls, delivered, snap, crashes, sent,
                   owed>>

\* requesterEmail of processAccountRequest.
requesterEmailOf(a) ==
    IF Truthy(a.user_info.email) THEN a.user_info.email ELSE Null

\* The e-mail channel is called for this request.
EmailCalled(deliveryMethod, requesterEmail) ==
    /\ deliveryMethod \in {"email", "both"}
    /\ Truthy(requesterEmail) /\ Truthy(Trim(requesterEmail))

sendAccountCredentials_logged(configured, sendOk) ==
    IF configured
    THEN IF sendOk THEN [success |-> TRUE, error |-> ""]
         ELSE [success |-> FALSE, error |-> "send failed"]
    ELSE [success |-> TRUE, error |-> ""]

\* emailService.sendAccountCredentials: sendMail resolves, or the service is not
\* configured, or sendMail throws.
sendAccountCredentials(configured, sendOk) ==
    IF configured
    THEN IF sendOk THEN [success |-> TRUE, error |-> ""]
         ELSE [success |-> FALSE, error |-> "send failed"]
    ELSE [success |-> FALSE, error |-> ""]

\* The mail sendAccountCredentials hands to sendMail: to userEmail, with the
\* name and the four keys of the account in its text.
Mail(userEmail, a, sendOk) ==
    [channel |-> "email", to |-> userEmail, about |-> a.username,
     visible |-> {a.username}, ok |-> sendOk]

\* Step 3, EMAIL.
DeliverEmail ==
    /\ pc = "email"
    /\ LET deliveryMethod == request.delivery_method
           requesterEmail == requesterEmailOf(authCheck) IN
         IF EmailCalled(deliveryMethod, requesterEmail)
         THEN /\ \E sendOk \in BOOLEAN :
                   /\ emailResult' = sendAccountCredentials(emailConfigured, sendOk)
                   /\ sent' = IF emailConfigured
                              THEN sent \cup {Mail(requesterEmail, accountData, sendOk)}
                              ELSE sent
              /\ attempted' = attempted \cup {"email"}
         ELSE IF deliveryMethod \in {"email", "both"}
         THEN /\ emailResult' = [success |-> FALSE, error |-> "No registered email"]
              /\ UNCHANGED <<attempted, sent>>
         ELSE UNCHANGED <<emailResult, attempted, sent>>
    /\ pc' = "memo"
    /\ UNCHANGED <<disk, ledger, config, pump, monitor, nextBlock, opIdx, request, authCheck,
                   accountData, memoResult, overallSuccess, tokenUsed, outcome,
                   creations, tokenUses, removeCalls, delivered, snap, crashes, owed>>

\* What the history keeps of a canSendMemo call that found less than 0.001 HBD.
LowBalance == "hbd_balance < 0.001"

canSendMemo_any(balance) == TRUE

\* canSendMemo: balance >= minimumRequired; checkHBDBalance answers 0 on an error.
canSendMemo(balance) == balance >= minimumRequired

\* Step 3, MEMO, up to the await of sendAccountMemo.
DeliverMemo ==
    /\ pc = "memo"
    /\ IF request.delivery_method \in {"hive_memo", "both"}
       THEN /\ \E balance \in 0..minimumRequired :
                 /\ attempted' = attempted \cup {"canSendMemo"} \cup
                                    (IF balance < minimumRequired THEN {LowBalance} ELSE {})
                 /\ IF ~canSendMemo(balance)
                    THEN /\ memoResult' = [success |-> FALSE,
                                           error |-> "Insufficient HBD for memo transfer"]
                         /\ pc' = "summary"
                    ELSE IF ~creatingMemoKey
                    THEN /\ memoResult' = [success |-> FALSE,
                                           error |-> "Missing faucet memo key"]
                         /\ pc' = "summary"
                    ELSE /\ pc' = "sendmemo"
                         /\ UNCHANGED memoResult
       ELSE /\ pc' = "summary"
            /\ UNCHANGED <<memoResult, attempted>>
    /\ UNCHANGED <<disk, ledger, config, pump, monitor, nextBlock, opIdx, request, authCheck,
                   accountData, emailResult, overallSuccess, tokenUsed, outcome,
                   creations, tokenUses, removeCalls, delivered, snap, crashes, sent, owed>>

\* What hive.api.getAccounts([recipientUsername]) can come to.
Lookups == {"found", "error", "empty"}

\* What hive.memo.encode can come to: it throws, or it gives the ciphertext, a
\* base58 string.  Of a ciphertext only the plaintexts it happens to contain as
\* substrings matter: visible.
Encodings(a) ==
    {[throws |-> TRUE, visible |-> {}]}
      \cup {[throws |-> FALSE, visible |-> v] : v \in SUBSET {a.username, a.masterPassword}}

\* encryptedMemo.includes(text)
includes(encryptedMemo, text) == text \in encryptedMemo.visible

\* The transfer of 0.001 HBD that carries the memo.
Transfer001(recipientUsername, a, encryptedMemo, transferOk) ==
    [channel |-> "memo", to |-> recipientUsername, about |-> a.username,
     visible |-> encryptedMemo.visible, ok |-> transferOk]

sendAccountMemo_unverified(recipientUsername, a, lookup, encryptedMemo, transferOk) ==
    IF lookup = "error"
    THEN [result |-> [success |-> FALSE, error |-> "lookup failed"], transfers |-> {}]
    ELSE IF lookup = "empty"
    THEN [result |-> [success |-> FALSE, error |-> "recipient not found"], transfers |-> {}]
    ELSE IF encryptedMemo.throws
    THEN [result |-> [success |-> FALSE, error |-> "encryption failed"], transfers |-> {}]
    ELSE [result |-> [success |-> transferOk,
                      error |-> IF transferOk THEN "" ELSE "transfer failed"],
          transfers |-> {Transfer001(recipientUsername, a, encryptedMemo, transferOk)}]

\* sendAccountMemo(recipientUsername, accountData): the result it resolves with
\* and the transfers it hands to hive.broadcast.transfer.
sendAccountMemo(recipientUsername, a, lookup, encryptedMemo, transferOk) ==
    IF lookup = "error"
    THEN [result |-> [success |-> FALSE, error |-> "lookup failed"], transfers |-> {}]
    ELSE IF lookup = "empty"
    THEN [result |-> [success |-> FALSE, error |-> "recipient not found"], transfers |-> {}]
    ELSE IF encryptedMemo.throws
    THEN [result |-> [success |-> FALSE, error |-> "encryption failed"], transfers |-> {}]
    ELSE IF includes(encryptedMemo, a.username) \/ includes(encryptedMemo, a.masterPassword)
    THEN [result |-> [success |-> FALSE,
                      error |-> "Memo encryption failed - security risk detected"],
          transfers |-> {}]
    ELSE [result |-> [success |-> transferOk,
                      error |-> IF transferOk THEN "" ELSE "transfer failed"],
          transfers |-> {Transfer001(recipientUsername, a, encryptedMemo, transferOk)}]

\* sendAccountMemo(request.requester, accountData) resolves.
SendMemo ==
    /\ pc = "sendmemo"
    /\ \E lookup \in Lookups : \E encryptedMemo \in Encodings(accountData) :
       \E transferOk \in BOOLEAN :
         LET r == sendAccountMemo(request.requester, accountData, lookup,
                                  encryptedMemo, transferOk) IN
         /\ memoResult' = r.result
         /\ sent' = sent \cup r.transfers
    /\ attempted' = attempted \cup {"sendAccountMemo"}
    /\ pc' = "summary"
    /\ UNCHANGED <<disk, ledger, config, pump, monitor, nextBlock, opIdx, request, authCheck,
                   accountData, emailResult, overallSuccess, tokenUsed, outcome,
                   creations, tokenUses, removeCalls, delivered, snap, crashes, owed>>

\* overallSuccess and the branch on it.
Summary ==
    /\ pc = "summary"
    /\ LET ok == overallSuccessOf(request.delivery_method, emailResult.success,
                                  memoResult.success) IN
         /\ overallSuccess' = ok
         /\ IF ok
            THEN /\ pc' = "usetoken"
                 /\ delivered' = delivered \cup {accountData.username}
                 /\ UNCHANGED <<opIdx, outcome>>
            ELSE /\ Return("stranded")
                 /\ UNCHANGED delivered
    /\ UNCHANGED <<disk, ledger, config, pump, monitor, nextBlock, request, authCheck,
                   accountData, emailResult, memoResult, tokenUsed, creations,
                   tokenUses, removeCalls, attempted, snap, crashes, sent, owed>>

\* Step 4: useToken(request.requester).
DeductToken ==
    /\ pc = "usetoken"
    /\ \E writeOk \in BOOLEAN :
         LET r == useToken(dataFile, request.requester, writeOk) IN
         /\ dataFile' = r.file
         /\ tokenUsed' = r.ret
         /\ tokenUses' = [tokenUses EXCEPT ![First(nextBlock) + opIdx] =
                             IF r.ret THEN @ + 1 ELSE @]
    /\ attempted' = attempted \cup {"useToken"}
    /\ pc' = "remove"
    /\ UNCHANGED <<pendingFile, lastBlockFile, ledger, config, pump, monitor, nextBlock, opIdx,
                   request, authCheck, accountData, emailResult, memoResult,
                   overallSuccess, outcome, creations, removeCalls, delivered, snap,
                   crashes, sent, owed>>

\* removePending(accountData.username), then the request returns.
Remove ==
    /\ pc = "remove"
    /\ \E writeOk \in BOOLEAN :
         pendingFile' = removePending(pendingFile, accountData.username, writeOk)
    /\ removeCalls' = [removeCalls EXCEPT ![accountData.username] = @ + 1]
    /\ attempted' = attempted \cup {"removePending"}
    /\ Return("fulfilled")
    /\ UNCHANGED <<dataFile, lastBlockFile, ledger, config, pump, monitor, nextBlock, request,
                   authCheck, accountData, emailResult, memoResult, overallSuccess,
                   tokenUsed, creations, tokenUses, delivered, snap, crashes, sent, owed>>

(***************************************************************************)
(* The environment: the ledger grows, other creators take names, the       *)
(* process is killed and started again.                                    *)
(***************************************************************************)
\* The ledger produces a block.  The faucet reads head only in start() and in
\* getBlock, so a block produced at any other time is the same as one produced
\* when start() is about to read head or when getBlock is about to miss it.
NewBlock ==
    /\ \/ pc = "start"
       \/ pc = "loop" /\ lastProcessedBlock + 1 > head
    /\ head < MaxHeight
    /\ head' = head + 1
    /\ UNCHANGED <<disk, ledgerOps, ledgerAt, accounts, config, pump, monitor, control,
                   locals, history>>

\* Another creator claims the name a request asks for.  The faucet reads the
\* ledger's accounts only in createHiveAccount, so a claim made at any earlier
\* time is the same as one made just before the availability check or the
\* broadcast.
OtherCreates ==
    /\ pc \in {"create", "broadcast"}
    /\ request.requested_username \notin accounts
    /\ accounts' = accounts \cup {request.requested_username}
    /\ UNCHANGED <<disk, ledgerOps, ledgerAt, head, config, pump, monitor, control, locals,
                   history>>

corruptData == [initialData EXCEPT !.ok = FALSE]

\* What a kill leaves of the process: nothing but the files.
Killed ==
    /\ crashes < MaxCrashes
    /\ crashes' = crashes + 1
    /\ pc' = "crashed"
    /\ isRunning' = FALSE
    /\ lastProcessedBlock' = 0
    /\ lastSavedBlock' = 0
    /\ nextBlock' = 0
    /\ opIdx' = 0
    /\ ResetLocals
    /\ outcome' = "none"
    /\ attempted' = {}
    /\ owed' = IF pc \in {"email", "memo", "sendmemo"} THEN <<PendingRecord(accountData)>>
               ELSE <<>>
    /\ snap' = NoSnap
    /\ UNCHANGED <<lastBlockFile, ledger, config, pump, creations, tokenUses, removeCalls,
                   delivered, sent>>

\* The process is killed between two steps.
Crash ==
    /\ pc \notin {"crashed"}
    /\ UNCHANGED <<dataFile, pendingFile>>
    /\ Killed

\* The process is killed inside fs.writeFileSync, after the file was truncated.
CrashInWrite ==
    /\ \/ /\ pc \in {"persist", "remove"}
          /\ pendingFile' = corruptFile
          /\ UNCHANGED dataFile
       \/ /\ pc = "usetoken"
          /\ useToken(dataFile, request.requester, TRUE).ret
          /\ dataFile' = corruptData
          /\ UNCHANGED pendingFile
    /\ Killed

\* The process starts again: the constructors (ensureRecoveryFile and
\* ensureDataFile find their files, loadLastBlock reads the cursor, the
\* environment supplies LAST_PROCESSED_BLOCK when the cursor is 0).
Restart ==
    /\ pc = "crashed"
    /\ lastProcessedBlock' =
         IF lastBlockFile = 0 /\ envBlock > 0 THEN envBlock ELSE lastBlockFile
    /\ pc' = "start"
    /\ UNCHANGED <<disk, ledger, config, pump, isRunning, lastSavedBlock, nextBlock, opIdx,
                   locals, history>>

Next ==
    \/ Start \/ StartFails \/ GetBlock \/ GetBlockMiss \/ Wake \/ EndBlock
    \/ SkipOperation \/ Dispatch
    \/ Authorize \/ CheckAvailable \/ CreateRefused \/ BroadcastOk \/ BroadcastFails
    \/ Persist \/ DeliverEmail \/ DeliverMemo \/ SendMemo \/ Summary
    \/ DeductToken \/ Remove
    \/ NewBlock \/ OtherCreates \/ Crash \/ CrashInWrite \/ Restart

Spec == Init /\ [][Next]_vars

\* A run without crashes.  What JavaScript runs between two awaits runs to its
\* end, and every awaited call (getBlock, sleep, the broadcasts, sendMail)
\* settles, so the process takes its next step whenever it has one.
Process ==
    \/ Start \/ StartFails \/ GetBlock \/ GetBlockMiss \/ Wake \/ EndBlock
    \/ SkipOperation \/ Dispatch
    \/ Authorize \/ CheckAvailable \/ CreateRefused \/ BroadcastOk \/ BroadcastFails
    \/ Persist \/ DeliverEmail \/ DeliverMemo \/ SendMemo \/ Summary
    \/ DeductToken \/ Remove

NextRun == Process \/ NewBlock \/ OtherCreates

SpecRun == Init /\ [][NextRun]_vars /\ WF_vars(Process)

\* The same process over a ledger that carries one operation of any shape.
SpecIntake == InitIntake /\ [][Next]_vars

\* The same process over a ledger that carries one request, signed by alice or
\* by mallory with the posting or the active authority, whose payload names
\* any e-mail address, any requester and any notes.
ClaimedQuota ==
    QuotaOf(UserRec(1, 0, "alice@example.org", TRUE), UserRec(1, 0, "bob@example.org", TRUE))

ClaimedOps ==
    {Claiming(CustomJson(FaucetId, signers[1], signers[2], Req(r, "newuser1", method).json),
              email, requester, notes) :
        r \in {"alice"}, method \in Methods,
        signers \in {<<(<<"alice">>), (<<>>)>>, <<(<<>>), (<<"alice">>)>>,
                     <<(<<"mallory">>), (<<"alice">>)>>},
        email \in {Null, "mallory@example.org"}, requester \in {Null, "alice", "bob"},
        notes \in {Null, "urgent"}}
      \cup {Claiming(BadVersion, "mallory@example.org", "bob", Null)}

InitClaimed ==
    /\ InitFiles
    /\ ledgerOps \in [1..1 -> ClaimedOps]
    /\ ledgerAt = <<1>>
    /\ dataFile = ClaimedQuota
    /\ creatingMemoKey = TRUE
    /\ emailConfigured = TRUE
    /\ envBlock = 0
    /\ InitProcess

SpecClaimed == InitClaimed /\ [][Next]_vars

(***************************************************************************)
(* The first start of a deployment: the constructors of UserManager and    *)
(* BlockchainMonitor run over a data directory in which                    *)
(* authorized_users.json and pending_credentials.json may be missing (ok = *)
(* FALSE) and may not be writable, then start() is called.  The process is *)
(* not killed.                                                             *)
(***************************************************************************)
\* ensureDataFile: mkdirSync throws out of the constructor; saveData of the
\* initial data catches a failing write.
ensureDataFile(file, writeOk) ==
    IF file.ok THEN file ELSE saveData(file, initialData, writeOk).file

\* ensureRecoveryFile: every error is caught and logged.
ensureRecoveryFile(file, writeOk) ==
    IF file.ok THEN file
    ELSE IF writeOk THEN emptyPending ELSE file

\* Both files are in place.
Prepared(data, pending) == data.ok /\ pending.ok

\* new BlockchainMonitor(): new UserManager(), ensureRecoveryFile(),
\* loadLastBlock() and the environment fallback; app.listen then calls start().
Boot ==
    /\ pc = "boot"
    /\ \E dataOk \in BOOLEAN : \E pendingOk \in BOOLEAN :
         /\ dataFile' = ensureDataFile(dataFile, dataOk)
         /\ pendingFile' = ensureRecoveryFile(pendingFile, pendingOk)
         /\ resume' = [NoResume EXCEPT !.cursor = lastBlockFile,
                                       !.prepared = Prepared(dataFile', pendingFile')]
    /\ lastProcessedBlock' =
         IF lastBlockFile = 0 /\ envBlock > 0 THEN envBlock ELSE lastBlockFile
    /\ pc' = "start"
    /\ UNCHANGED <<lastBlockFile, ledger, config, loops, completed, origins, isRunning,
                   lastSavedBlock, nextBlock, opIdx, locals, history>>

\* new UserManager(): the data directory is missing and mkdirSync throws; the
\* exception leaves the constructor and the process ends before app.listen.
BootThrows ==
    /\ pc = "boot"
    /\ ~dataFile.ok /\ ~pendingFile.ok
    /\ pc' = "aborted"
    /\ resume' = [resume EXCEPT !.prepared = FALSE]
    /\ UNCHANGED <<disk, ledger, config, loops, completed, origins, monitor, nextBlock,
                   opIdx, locals, history>>

InitBoot ==
    /\ pendingFile \in {emptyPending, corruptFile}
    /\ lastBlockFile = 0
    /\ ledgerOps \in [1..1 -> SingleOps]
    /\ ledgerAt = <<1>>
    /\ dataFile \in {QuotaOf(UserRec(alloc, 0, email, TRUE), BobRec) :
                        alloc \in 0..1, email \in {Null, "alice@example.org"}}
                    \cup {corruptData}
    /\ creatingMemoKey \in BOOLEAN
    /\ emailConfigured \in BOOLEAN
    /\ envBlock = 0
    /\ head = 1
    /\ accounts = {}
    /\ isRunning = FALSE
    /\ lastProcessedBlock = 0
    /\ lastSavedBlock = 0
    /\ pc = "boot"
    /\ nextBlock = 0
    /\ opIdx = 0
    /\ request = NoRequest
    /\ authCheck = NoAuth
    /\ accountData = NoAccount
    /\ emailResult = NoResult
    /\ memoResult = NoResult
    /\ overallSuccess = FALSE
    /\ tokenUsed = FALSE
    /\ outcome = "none"
    /\ creations = [u \in Usernames |-> 0]
    /\ tokenUses = [i \in 1..Len(ledgerOps) |-> 0]
    /\ removeCalls = [u \in Usernames |-> 0]
    /\ delivered = {}
    /\ attempted = {}
    /\ snap = NoSnap
    /\ crashes = 0
    /\ owed = <<>>
    /\ sent = {}
    /\ NoPump

NextBoot ==
    \/ Boot \/ BootThrows
    \/ Start \/ StartFails \/ GetBlock \/ GetBlockMiss \/ Wake \/ EndBlock
    \/ SkipOperation \/ Dispatch
    \/ Authorize \/ CheckAvailable \/ CreateRefused \/ BroadcastOk \/ BroadcastFails
    \/ Persist \/ DeliverEmail \/ DeliverMemo \/ SendMemo \/ Summary
    \/ DeductToken \/ Remove
    \/ NewBlock \/ OtherCreates

SpecBoot == InitBoot /\ [][NextBoot]_vars

(***************************************************************************)
(* The admin tool (backend/admin.js) and the quota ledger on its own: any  *)
(* sequence of add-user, give-tokens, set-tokens, activate, deactivate and *)
(* of token deductions, starting from the file ensureDataFile writes.      *)
(***************************************************************************)
\* parseInt(args[2]): an integer, or NaN.
AdminArgs ==
    {[nan |-> FALSE, n |-> k] : k \in (0 - MaxAdmin)..MaxAdmin} \cup {[nan |-> TRUE, n |-> 0]}

\* JavaScript !x of a parseInt result.
Falsy(arg) == arg.nan \/ arg.n = 0

notQuota == <<pendingFile, lastBlockFile, ledger, config, pump, monitor, control, locals,
              history>>

\* argv[1] of the admin tool is any string: a user, and a name that
\* authorized_users inherits.
AdminNames == {"alice"} \cup Inherited

\* The sum of a field over the users of the quota ledger.
RECURSIVE SumOf(_, _)
SumOf(f, S) ==
    IF S = {} THEN 0
    ELSE LET u == CHOOSE x \in S : TRUE IN f[u] + SumOf(f, S \ {u})

AllocatedOf(file) ==
    SumOf([u \in DOMAIN file.authorized_users |->
             file.authorized_users[u].tokens_allocated], DOMAIN file.authorized_users)

UsedOf(file) ==
    SumOf([u \in DOMAIN file.authorized_users |->
             file.authorized_users[u].tokens_used], DOMAIN file.authorized_users)

\* The runs explored: allocations within MaxAlloc, and totals of the metadata
\* within MaxDrift of the sums over the users.
WithinAlloc(file) ==
    /\ \A u \in DOMAIN file.authorized_users :
          /\ file.authorized_users[u].tokens_allocated <= MaxAlloc
          /\ file.authorized_users[u].tokens_allocated >= 0 - MaxAlloc
    /\ \/ file.metadata.allocated_null
       \/ /\ file.metadata.total_tokens_allocated - AllocatedOf(file) <= MaxDrift
          /\ AllocatedOf(file) - file.metadata.total_tokens_allocated <= MaxDrift
    /\ file.metadata.total_tokens_used - UsedOf(file) <= MaxDrift

\* add-user <username> [tokens]: const tokens = parseInt(args[2]) || 5
AddUserOf(names) ==
    /\ \E username \in names, arg \in AdminArgs, writeOk \in BOOLEAN :
         LET tokens == IF Falsy(arg) THEN defaultTokens ELSE arg.n IN
         /\ dataFile' = addUser(dataFile, username, tokens, writeOk).file
         /\ WithinAlloc(dataFile')
    /\ UNCHANGED notQuota

\* give-tokens <username> <num>: refused when !giveTokens
GiveTokensOf(names) ==
    /\ \E username \in names, arg \in AdminArgs, writeOk \in BOOLEAN :
         /\ dataFile' = IF Falsy(arg) THEN dataFile
                        ELSE giveTokens(dataFile, username, arg.n, writeOk).file
         /\ WithinAlloc(dataFile')
    /\ UNCHANGED notQuota

\* set-tokens <username> <num>: refused when isNaN(setTokens)
SetTokensOf(names) ==
    /\ \E username \in names, arg \in AdminArgs, writeOk \in BOOLEAN :
         /\ dataFile' = IF arg.nan THEN dataFile
                        ELSE setTokens(dataFile, username, arg.n, writeOk).file
         /\ WithinAlloc(dataFile')
    /\ UNCHANGED notQuota

\* activate <username> / deactivate <username>
SetStatusOf(names) ==
    /\ \E username \in names, isActive \in BOOLEAN, writeOk \in BOOLEAN :
         dataFile' = setUserStatus(dataFile, username, isActive, writeOk).file
    /\ UNCHANGED notQuota

\* useToken(username), as step 4 of a fulfilled request calls it.
UseTokenOf(names) ==
    /\ \E username \in names, writeOk \in BOOLEAN :
         /\ dataFile' = useToken(dataFile, username, writeOk).file
         /\ WithinAlloc(dataFile')
    /\ UNCHANGED notQuota

\* The commands on the users of the quota ledger.
AdminAddUser == AddUserOf(UserNames)
AdminGiveTokens == GiveTokensOf(UserNames)
AdminSetTokens == SetTokensOf(UserNames)
AdminSetStatus == SetStatusOf(UserNames)
QuotaUseToken == UseTokenOf(Requesters)

\* The commands on any name.
AnyAddUser == AddUserOf(AdminNames)
AnyGiveTokens == GiveTokensOf(AdminNames)
AnySetTokens == SetTokensOf(AdminNames)
AnySetStatus == SetStatusOf(AdminNames)
AnyUseToken == UseTokenOf(AdminNames \cup {"mallory"})

InitQuota ==
    /\ dataFile = initialData
    /\ pendingFile = emptyPending
    /\ lastBlockFile = 0
    /\ ledgerOps = <<>>
    /\ ledgerAt = <<>>
    /\ head = 1
    /\ accounts = {}
    /\ creatingMemoKey = TRUE
    /\ emailConfigured = TRUE
    /\ envBlock = 0
    /\ isRunning = FALSE
    /\ lastProcessedBlock = 0
    /\ lastSavedBlock = 0
    /\ pc = "stopped"
    /\ nextBlock = 0
    /\ opIdx = 0
    /\ request = NoRequest
    /\ authCheck = NoAuth
    /\ accountData = NoAccount
    /\ emailResult = NoResult
    /\ memoResult = NoResult
    /\ overallSuccess = FALSE
    /\ tokenUsed = FALSE
    /\ outcome = "none"
    /\ creations = [u \in Usernames |-> 0]
    /\ tokenUses = <<>>
    /\ removeCalls = [u \in Usernames |-> 0]
    /\ delivered = {}
    /\ attempted = {}
    /\ snap = NoSnap
    /\ crashes = 0
    /\ owed = <<>>
    /\ sent = {}
    /\ NoPump

NextQuota ==
    \/ AdminAddUser \/ AdminGiveTokens \/ AdminSetTokens \/ AdminSetStatus
    \/ QuotaUseToken

SpecQuota == InitQuota /\ [][NextQuota]_vars

NextAdmin ==
    \/ AnyAddUser \/ AnyGiveTokens \/ AnySetTokens \/ AnySetStatus
    \/ AnyUseToken

SpecAdmin == InitQuota /\ [][NextAdmin]_vars

(***************************************************************************)
(* start(), stop() and streamBlocks() on their own: every call of start()  *)
(* that went past the isRunning test is an invocation with its own         *)
(* position, and processBlock is one await.  A step is what JavaScript     *)
(* runs between two awaits.                                                *)
(***************************************************************************)
pumpFrame == <<dataFile, pendingFile, ledgerOps, ledgerAt, accounts, config, control,
               locals, creations, tokenUses, removeCalls, delivered, attempted, snap,
               owed>>

\* streamBlocks at the head of its while loop: the next getBlock is issued, or
\* the loop ends and start() returns.
Continue(last, running) ==
    IF running THEN [at |-> "getBlock", nextBlock |-> last + 1, retry |-> 0] ELSE Idle

\* The history of the resume: the first getBlock issued since the constructor ran.
Noted(r, loop) ==
    IF loop.at = "getBlock" /\ r.first = 0 THEN [r EXCEPT !.first = loop.nextBlock] ELSE r

\* start(), from app.listen or POST /monitor/start, when isRunning is false.
PumpStart(i) ==
    /\ loops[i].at = "idle"
    /\ \A j \in Loops : j < i => loops[j].at # "idle"
    /\ ~isRunning
    /\ isRunning' = TRUE
    /\ loops' = [loops EXCEPT ![i] =
                   IF lastProcessedBlock = 0
                   THEN [at |-> "props", nextBlock |-> 0, retry |-> 0]
                   ELSE Continue(lastProcessedBlock, TRUE)]
    /\ resume' = Noted(resume, loops'[i])
    /\ UNCHANGED <<pumpFrame, lastBlockFile, head, lastProcessedBlock, lastSavedBlock,
                   completed, origins, crashes, sent>>

\* start(): getDynamicGlobalProperties resolves; streamBlocks begins.
PumpProps(i) ==
    /\ loops[i].at = "props"
    /\ lastProcessedBlock' = head - 1
    /\ origins' = origins \cup {head - 1}
    /\ loops' = [loops EXCEPT ![i] = Continue(head - 1, isRunning)]
    /\ resume' = Noted(resume, loops'[i])
    /\ UNCHANGED <<pumpFrame, lastBlockFile, head, isRunning, lastSavedBlock, completed,
                   crashes, sent>>

\* start(): getDynamicGlobalProperties throws; the catch clears isRunning.
PumpPropsFails(i) ==
    /\ loops[i].at = "props"
    /\ isRunning' = FALSE
    /\ loops' = [loops EXCEPT ![i] = Idle]
    /\ UNCHANGED <<pumpFrame, lastBlockFile, head, lastProcessedBlock, lastSavedBlock,
                   completed, origins, resume, crashes, sent>>

PumpGetBlock_advances(i) ==
    /\ loops[i].at = "getBlock"
    /\ loops[i].nextBlock <= head
    /\ lastProcessedBlock' = loops[i].nextBlock
    /\ loops' = [loops EXCEPT ![i].at = "processBlock", ![i].retry = 0]
    /\ UNCHANGED <<pumpFrame, lastBlockFile, head, isRunning, lastSavedBlock,
                   completed, origins, resume, crashes, sent>>

\* getBlock(nextBlock) resolves with a block: processBlock begins.
PumpGetBlock(i) ==
    /\ loops[i].at = "getBlock"
    /\ loops[i].nextBlock <= head
    /\ loops' = [loops EXCEPT ![i].at = "processBlock", ![i].retry = 0]
    /\ UNCHANGED <<pumpFrame, lastBlockFile, head, monitor, completed, origins, resume, crashes, sent>>

\* getBlock(nextBlock) resolves with no block (sleep 3 s) or throws (sleep 5 s).
PumpNoBlock(i) ==
    /\ loops[i].at = "getBlock"
    /\ loops' = [loops EXCEPT ![i].at = "sleep", ![i].retry = loops[i].nextBlock]
    /\ UNCHANGED <<pumpFrame, lastBlockFile, head, monitor, completed, origins, resume, crashes, sent>>

\* The sleep ends: back to the head of the while loop.
PumpWake(i) ==
    /\ loops[i].at = "sleep"
    /\ loops' = [loops EXCEPT ![i] =
                   IF isRunning
                   THEN [at |-> "getBlock", nextBlock |-> lastProcessedBlock + 1,
                         retry |-> loops[i].retry]
                   ELSE Idle]
    /\ resume' = Noted(resume, loops'[i])
    /\ UNCHANGED <<pumpFrame, lastBlockFile, head, monitor, completed, origins, crashes, sent>>

\* processBlock resolves: the cursor advances, is saved when the height is a
\* multiple of blockSaveInterval, and the loop goes on.
PumpProcessed(i) ==
    /\ loops[i].at = "processBlock"
    /\ LET nextBlock_i == loops[i].nextBlock IN
         /\ lastProcessedBlock' = nextBlock_i
         /\ completed' = completed \cup {nextBlock_i}
         /\ \E writeOk \in BOOLEAN :
              LET r == IF nextBlock_i % blockSaveInterval = 0
                       THEN saveLastBlock(nextBlock_i, lastSavedBlock, lastBlockFile,
                                          FALSE, writeOk)
                       ELSE [file |-> lastBlockFile, saved |-> lastSavedBlock] IN
              /\ lastBlockFile' = r.file
              /\ lastSavedBlock' = r.saved
         /\ loops' = [loops EXCEPT ![i] = Continue(nextBlock_i, isRunning)]
    /\ resume' = Noted(resume, loops'[i])
    /\ UNCHANGED <<pumpFrame, head, isRunning, origins, crashes, sent>>

\* stop(), from POST /monitor/stop: saveLastBlock(true), then isRunning = false.
PumpStop ==
    /\ \E writeOk \in BOOLEAN :
         LET r == saveLastBlock(lastProcessedBlock, lastSavedBlock, lastBlockFile,
                                TRUE, writeOk) IN
         /\ lastBlockFile' = r.file
         /\ lastSavedBlock' = r.saved
    /\ isRunning' = FALSE
    /\ UNCHANGED <<pumpFrame, head, lastProcessedBlock, pump, crashes, sent>>

\* The chain produces a block.
PumpNewBlock ==
    /\ head < MaxChain
    /\ head' = head + 1
    /\ UNCHANGED <<pumpFrame, lastBlockFile, monitor, pump, crashes, sent>>

PumpRestart_fromEnv ==
    /\ crashes < MaxCrashes
    /\ crashes' = crashes + 1
    /\ loops' = NoLoops
    /\ isRunning' = FALSE
    /\ lastProcessedBlock' = envBlock
    /\ lastSavedBlock' = 0
    /\ resume' = [cursor |-> lastBlockFile, first |-> 0, after |-> "kill",
                 prepared |-> TRUE]
    /\ UNCHANGED <<pumpFrame, lastBlockFile, head, completed, origins, sent>>

\* The process ends (a kill, or process.exit after stop() in the SIGINT and
\* SIGTERM handlers) and is started again: the constructor reads the cursor.
PumpRestart ==
    /\ crashes < MaxCrashes
    /\ crashes' = crashes + 1
    /\ loops' = NoLoops
    /\ isRunning' = FALSE
    /\ lastProcessedBlock' =
         IF lastBlockFile = 0 /\ envBlock > 0 THEN envBlock ELSE lastBlockFile
    /\ lastSavedBlock' = 0
    /\ resume' = [cursor |-> lastBlockFile, first |-> 0, after |-> "kill",
                 prepared |-> TRUE]
    /\ UNCHANGED <<pumpFrame, lastBlockFile, head, completed, origins, sent>>

\* SIGINT or SIGTERM: the handler calls stop() and then process.exit(0), which
\* ends every pending invocation where it is; the process is started again.
PumpShutdown ==
    /\ crashes < MaxCrashes
    /\ crashes' = crashes + 1
    /\ \E writeOk \in BOOLEAN :
         LET r == saveLastBlock(lastProcessedBlock, lastSavedBlock, lastBlockFile,
                                TRUE, writeOk) IN
         /\ lastBlockFile' = r.file
         /\ lastProcessedBlock' =
              IF r.file = 0 /\ envBlock > 0 THEN envBlock ELSE r.file
         /\ resume' = [cursor |-> r.file, first |-> 0, after |-> "signal",
                      prepared |-> TRUE]
    /\ loops' = NoLoops
    /\ isRunning' = FALSE
    /\ lastSavedBlock' = 0
    /\ UNCHANGED <<pumpFrame, head, completed, origins, sent>>

InitPump ==
    /\ dataFile = initialData
    /\ pendingFile = emptyPending
    /\ lastBlockFile = 0
    /\ ledgerOps = <<>>
    /\ ledgerAt = <<>>
    /\ head = 2
    /\ accounts = {}
    /\ creatingMemoKey = TRUE
    /\ emailConfigured = TRUE
    /\ envBlock \in 0..MaxEnv
    /\ isRunning = FALSE
    /\ lastProcessedBlock = envBlock
    /\ lastSavedBlock = 0
    /\ pc = "stopped"
    /\ nextBlock = 0
    /\ opIdx = 0
    /\ request = NoRequest
    /\ authCheck = NoAuth
    /\ accountData = NoAccount
    /\ emailResult = NoResult
    /\ memoResult = NoResult
    /\ overallSuccess = FALSE
    /\ tokenUsed = FALSE
    /\ outcome = "none"
    /\ creations = [u \in Usernames |-> 0]
    /\ tokenUses = <<>>
    /\ removeCalls = [u \in Usernames |-> 0]
    /\ delivered = {}
    /\ attempted = {}
    /\ snap = NoSnap
    /\ crashes = 0
    /\ owed = <<>>
    /\ sent = {}
    /\ loops = NoLoops
    /\ completed = {}
    /\ origins = IF envBlock > 0 THEN {envBlock} ELSE {}
    /\ resume = NoResume

NextPump ==
    \/ \E i \in Loops :
         \/ PumpStart(i) \/ PumpProps(i) \/ PumpPropsFails(i)
         \/ PumpGetBlock(i) \/ PumpNoBlock(i) \/ PumpWake(i) \/ PumpProcessed(i)
    \/ PumpStop \/ PumpNewBlock \/ PumpRestart \/ PumpShutdown

SpecPump == InitPump /\ [][NextPump]_vars

(***************************************************************************)
(* addPending and removePending on their own, on a store that the calls    *)
(* themselves filled and that may have become unreadable with its records  *)
(* in it (permissions changed, or a byte damaged so that JSON.parse        *)
(* throws).                                                                *)
(***************************************************************************)
storeFrame == <<dataFile, lastBlockFile, ledgerOps, ledgerAt, head, config, pump, monitor,
                control, locals, history>>

\* addPending(record) for an account just created under a name not yet taken.
StoreAdd(u, requester, masterPassword) ==
    /\ u \notin accounts
    /\ accounts' = accounts \cup {u}
    /\ \E writeOk \in BOOLEAN :
         pendingFile' =
            addPending(pendingFile,
                       PendingRecord(AccountData(u, masterPassword, TxOf(u), requester)),
                       writeOk)
    /\ UNCHANGED storeFrame

\* removePending(username) for an account that was created.
StoreRemove(u) ==
    /\ u \in accounts
    /\ \E writeOk \in BOOLEAN : pendingFile' = removePending(pendingFile, u, writeOk)
    /\ UNCHANGED <<accounts, storeFrame>>

\* The file becomes unreadable or unparseable while it holds records.
StoreDamaged ==
    /\ pendingFile.ok
    /\ pendingFile.pending # <<>>
    /\ pendingFile' = [pendingFile EXCEPT !.ok = FALSE]
    /\ UNCHANGED <<accounts, storeFrame>>

InitStore ==
    /\ InitFiles
    /\ ledgerOps = <<>>
    /\ ledgerAt = <<>>
    /\ dataFile = initialData
    /\ creatingMemoKey = TRUE
    /\ emailConfigured = TRUE
    /\ envBlock = 0
    /\ InitProcess

NextStore ==
    \/ \E u \in Usernames : \E requester \in Requesters :
       \E i \in DOMAIN Passwords : StoreAdd(u, requester, Passwords[i])
    \/ \E u \in Usernames : StoreRemove(u)
    \/ StoreDamaged

SpecStore == InitStore /\ [][NextStore]_vars

(***************************************************************************)
(* Properties.                                                             *)
(***************************************************************************)
DeliveryCalls == {"email", "canSendMemo", "sendAccountMemo"}

\* The request that was being processed has just returned in the given way.
Returned(how) == pc = "block" /\ outcome = how

Stored(record) == record \in Range(loadPending(pendingFile))

\* C1: whenever a delivery channel has been called for a created account and
\* the delivery is still under way, pending_credentials.json holds the
\* credential record of that account.
C1_PersistedBeforeDelivery ==
    (pc \in {"memo", "sendmemo", "summary"} /\ attempted \cap DeliveryCalls # {})
        => Stored(PendingRecord(accountData))

\* C2: every account the faucet created on the ledger has a record in
\* pending_credentials.json or a delivery that ended with overallSuccess true,
\* in every state outside the step from the broadcast to addPending.
C2_NoSecretLost ==
    \A u \in Usernames :
        (creations[u] > 0 /\ ~(pc = "persist" /\ accountData.username = u))
            => (u \in PendingNames(pendingFile) \/ u \in delivered)

\* C3: after a crash that came once addPending had returned and before the
\* delivery had completed, the restarted process loads a list that holds the
\* record with every field as it was.
C3_RecoverableAfterCrash ==
    (pc = "start" /\ owed # <<>>) => Stored(owed[1])

\* C4: when the delivery of a created account ends with overallSuccess false,
\* the record is in the pending store and the requester's tokens_used and
\* tokens_remaining are what checkAuthorization saw; removePending is reached
\* only with overallSuccess true.
C4_StrandedKeepsRecord ==
    /\ Returned("stranded") =>
         /\ Stored(PendingRecord(accountData))
         /\ dataFile.authorized_users[request.requester].tokens_used
              = authCheck.user_info.tokens_used
         /\ dataFile.authorized_users[request.requester].tokens_remaining
              = authCheck.user_info.tokens_remaining
    /\ pc = "remove" => overallSuccess

\* The request reached the computation of overallSuccess.
Summed == pc \in {"usetoken", "remove"} \/ Returned("stranded") \/ Returned("fulfilled")

\* C5: overallSuccess is the conjunction of the two channel results for 'both'
\* and the result of the one requested channel for 'email' and 'hive_memo',
\* and the channel that was not requested was not called.
C5_OverallSuccessPolicy ==
    Summed =>
      /\ request.delivery_method = "both" =>
           overallSuccess = (emailResult.success /\ memoResult.success)
      /\ request.delivery_method = "email" =>
           /\ overallSuccess = emailResult.success
           /\ attempted \cap {"canSendMemo", "sendAccountMemo"} = {}
           /\ ~memoResult.success
      /\ request.delivery_method = "hive_memo" =>
           /\ overallSuccess = memoResult.success
           /\ "email" \notin attempted
           /\ ~emailResult.success

C5_Witness ==
    /\ Returned("stranded")
    /\ request.delivery_method = "both"
    /\ emailResult.success
    /\ ~memoResult.success
    /\ "sendAccountMemo" \in attempted

\* C6: a request whose createHiveAccount answered success false returns with
\* authorized_users.json and pending_credentials.json as they were when it
\* began, and without a call of addPending, useToken, removePending or a
\* delivery channel.
C6_CreateFailureFrame ==
    Returned("create_failed") =>
      /\ snap = <<dataFile, pendingFile>>
      /\ attempted \cap (DeliveryCalls \cup {"addPending", "useToken", "removePending"}) = {}

C6_Witness ==
    /\ Returned("create_failed")
    /\ request.requested_username = "newuser2"
    /\ "newuser1" \in PendingNames(pendingFile)
    /\ "sendOperations" \in attempted

\* C7: checkAuthorization answers authorized exactly for a requester that is
\* in the list, active and has tokens_remaining > 0; a request it refuses
\* returns with both files as they were and without a broadcast, a pending
\* record or a token deduction.
C7_AuthorizationGate ==
    /\ \A r \in Requesters \cup {Null} :
         checkAuthorization(dataFile, r).authorized <=>
            /\ Known(dataFile, r)
            /\ dataFile.authorized_users[r].is_active
            /\ dataFile.authorized_users[r].tokens_remaining > 0
    /\ Returned("unauthorized") =>
         /\ ~authCheck.authorized
         /\ snap = <<dataFile, pendingFile>>
         /\ attempted = {}
         /\ accountData = NoAccount

C7_Witness ==
    /\ Returned("unauthorized")
    /\ request.requester = "alice"
    /\ dataFile.authorized_users["alice"].is_active
    /\ dataFile.authorized_users["alice"].tokens_remaining = 0
    /\ dataFile.authorized_users["alice"].tokens_used = 1
    /\ tokenUses[1] = 1

\* C8: useToken returns true at most once for a request operation,
\* removePending is called at most once for a name, and at most one creation
\* of a name is broadcast successfully, crashes and replayed blocks included.
C8_NeverDoubleFulfilled ==
    /\ \A i \in DOMAIN tokenUses : tokenUses[i] <= 1
    /\ \A u \in Usernames : removeCalls[u] <= 1 /\ creations[u] <= 1

\* A block is replayed after a crash and the request that was fulfilled in the
\* first pass is refused at creation in the second, with a token left.
C8_Witness ==
    /\ crashes = 1
    /\ Returned("create_failed")
    /\ tokenUses[First(nextBlock) + opIdx - 1] = 1
    /\ removeCalls[request.requested_username] = 1
    /\ authCheck.authorized

QuotaUsers == IF dataFile.ok THEN DOMAIN dataFile.authorized_users ELSE {}

\* C9: every user of the quota ledger has
\* tokens_used + tokens_remaining = tokens_allocated.
C9_TokenConservation ==
    \A u \in QuotaUsers :
        LET user == dataFile.authorized_users[u] IN
        user.tokens_used + user.tokens_remaining = user.tokens_allocated

C9_Witness ==
    /\ "alice" \in QuotaUsers
    /\ LET user == dataFile.authorized_users["alice"] IN
         /\ user.tokens_used = 2
         /\ user.tokens_allocated = 1
         /\ user.tokens_remaining = 0 - 1
         /\ ~user.is_active

\* C10: every user of the quota ledger has tokens_remaining >= 0.
C10_RemainingNonNegative ==
    \A u \in QuotaUsers : dataFile.authorized_users[u].tokens_remaining >= 0

\* C11: the metadata of authorized_users.json agrees with its user records:
\* total_users is their number, total_tokens_allocated the sum of their
\* tokens_allocated and total_tokens_used the sum of their tokens_used.
C11_MetadataAgrees ==
    dataFile.ok =>
        LET users == dataFile.authorized_users
            metadata == dataFile.metadata IN
        /\ metadata.total_users = Cardinality(DOMAIN users)
        /\ ~metadata.allocated_null
        /\ metadata.total_tokens_allocated = AllocatedOf(dataFile)
        /\ metadata.total_tokens_used = UsedOf(dataFile)

\* C12: useToken of a key of authorized_users with tokens_remaining > 0 moves
\* one token from remaining to used and saves (a failed write answers false
\* and keeps the file); useToken of any other name answers false and keeps the
\* file.
C12_UseTokenContract ==
    \A r \in Requesters \cup Inherited, writeOk \in BOOLEAN :
        LET res == useToken(dataFile, r, writeOk) IN
        IF Known(dataFile, r) /\ dataFile.authorized_users[r].tokens_remaining > 0
        THEN /\ res.ret = writeOk
             /\ ~writeOk => res.file = dataFile
             /\ writeOk =>
                  /\ res.file.authorized_users =
                       [dataFile.authorized_users EXCEPT
                          ![r].tokens_used = @ + 1, ![r].tokens_remaining = @ - 1]
                  /\ res.file.metadata.total_users = dataFile.metadata.total_users
        ELSE ~res.ret /\ res.file = dataFile

\* Invocations of start() that have not returned.
Active == {i \in Loops : loops[i].at # "idle"}

C14_MissRetriesSameHeight ==
    /\ \A i \in Loops :
         (loops[i].at = "getBlock" /\ loops[i].retry # 0)
             => loops[i].nextBlock = loops[i].retry
    /\ lastProcessedBlock = 0 \/ lastProcessedBlock \in completed \cup origins

\* C15: one processBlock at a time: no two invocations are inside
\* processBlock together.
C15_OneRequestAtATime ==
    \A i \in Loops : \A j \in Loops :
        (i # j /\ loops[i].at = "processBlock") => loops[j].at # "processBlock"

\* C16: at most one invocation of start() has not returned, and none is
\* fetching a block while another is inside processBlock.
C16_SingleLoop ==
    /\ Cardinality(Active) <= 1
    /\ \A i \in Loops : \A j \in Loops :
         (i # j /\ loops[i].at = "processBlock") => loops[j].at # "getBlock"

\* The schema of a request, field by field.
Schema(data) ==
    /\ data.parses
    /\ data.app = FaucetId
    /\ data.version = "1.0.0"
    /\ data.action = "create_account_request"
    /\ data.hasData
    /\ data.requested_username \notin {Null, ""}
    /\ data.delivery_method \notin {Null, ""}

\* processAccountRequest is running.
InRequest ==
    pc \in {"auth", "create", "broadcast", "persist", "email", "memo", "sendmemo",
            "summary", "usetoken", "remove"}

\* C17: validateRequest accepts a decoded payload exactly when every field of
\* the schema is right, and processAccountRequest runs only for an operation
\* with the faucet's id whose payload parses and meets the schema.
C17_ExactSchema ==
    /\ \A i \in DOMAIN ledgerOps :
         ledgerOps[i].json.parses =>
             (validateRequest(ledgerOps[i].json) <=> Schema(ledgerOps[i].json))
    /\ InRequest =>
         LET operation == OpAt(nextBlock, opIdx) IN
         /\ operation.id = FaucetId
         /\ Schema(operation.json)
         /\ request.requested_username = operation.json.requested_username
         /\ request.delivery_method = operation.json.delivery_method

\* A payload that is right but for its version was passed over and the block
\* was completed.
C17_Witness ==
    /\ pc = "loop"
    /\ lastProcessedBlock = 1
    /\ crashes = 0
    /\ LET data == ledgerOps[1].json IN
         /\ ledgerOps[1].id = FaucetId
         /\ data.parses /\ data.hasData
         /\ data.app = FaucetId
         /\ data.version = "0.9.0"
         /\ data.action = "create_account_request"
         /\ data.requested_username = "newuser1"
         /\ data.delivery_method = "both"
    /\ accounts = {}

\* The operation processBlock is at carries the faucet's id and a payload that
\* does not parse or fails the schema.
BadHere ==
    /\ pc = "block"
    /\ opIdx <= BlockLen(nextBlock)
    /\ OpAt(nextBlock, opIdx).kind = "custom_json"
    /\ OpAt(nextBlock, opIdx).id = FaucetId
    /\ ~Schema(OpAt(nextBlock, opIdx).json)

\* C18: the step over an operation of the faucet that does not parse or fails
\* the schema changes no file, no account of the ledger and no cursor, leaves
\* the pump running and goes to the next operation of the block; and
\* processBlock is left only at the end of the block, with the cursor on it.
C18_InvalidOperationSkipped ==
    /\ [][(BadHere /\ pc' # "crashed") =>
            /\ UNCHANGED <<disk, accounts, creations, tokenUses, removeCalls, isRunning,
                           lastProcessedBlock>>
            /\ pc' = "block"
            /\ opIdx' = opIdx + 1]_vars
    /\ [][(pc = "block" /\ pc' \notin {"block", "crashed", "auth"}) =>
            /\ opIdx > BlockLen(nextBlock)
            /\ pc' = "loop"
            /\ lastProcessedBlock' = nextBlock]_vars

\* A block whose first operation did not parse was completed, and the request
\* that came after it in the block was fulfilled.
C18_Witness ==
    /\ pc = "loop"
    /\ crashes = 0
    /\ Len(ledgerOps) = 2
    /\ ledgerOps[1] = BadJson
    /\ ledgerAt = <<1, 1>>
    /\ lastProcessedBlock = 1
    /\ tokenUses[2] = 1
    /\ pendingFile = emptyPending

\* C19: a request that returns after overallSuccess true has moved one token of
\* its requester from remaining to used and has left no pending record of the
\* created name; removePending was called only with tokenUsed true.
C19_FulfilledMeansSpent ==
    /\ Returned("fulfilled") =>
         LET user == dataFile.authorized_users[request.requester] IN
         /\ user.tokens_used = authCheck.user_info.tokens_used + 1
         /\ user.tokens_remaining = authCheck.user_info.tokens_remaining - 1
         /\ accountData.username \notin PendingNames(pendingFile)
    /\ "removePending" \in attempted => tokenUsed

\* The request operations that ask for the name u.
RequestsFor(u) ==
    {i \in DOMAIN ledgerOps :
        Accepts(ledgerOps[i]) /\ ledgerOps[i].json.requested_username = u}

\* C20: removePending is called after useToken; between the two calls, where a
\* crash would stop the request, the token is spent and the record is in the
\* pending store; and in every state, after a crash as well, a name whose
\* record was removed has a request that spent its token.
C20_TokenBeforeRemove ==
    /\ "removePending" \in attempted => "useToken" \in attempted
    /\ pc = "remove" =>
         /\ tokenUsed
         /\ Stored(PendingRecord(accountData))
    /\ \A u \in Usernames :
         removeCalls[u] > 0 => \E i \in RequestsFor(u) : tokenUses[i] > 0

\* The transfers handed to hive.broadcast.transfer.
Memos == {m \in sent : m.channel = "memo"}

\* C21: no transfer the faucet broadcasts carries a memo in which the name or
\* the master password of the new account can be read, and a memo channel that
\* reports success has broadcast such a clean memo to the ledger.
C21_MemoHidesPlaintext ==
    /\ \A m \in Memos :
         m.about \notin m.visible /\ m.visible \cap Range(Passwords) = {}
    /\ (pc = "summary" /\ memoResult.success) =>
         \E m \in Memos : m.about = accountData.username /\ m.ok /\ m.visible = {}

\* A ciphertext in which a plaintext could be read made the memo channel fail,
\* and nothing was broadcast for that account.
C21_Witness ==
    /\ pc = "summary"
    /\ memoResult = [success |-> FALSE,
                     error |-> "Memo encryption failed - security risk detected"]
    /\ \A m \in Memos : m.about # accountData.username

\* The request in progress asks for e-mail delivery and its requester has no
\* registered e-mail: the field is missing, empty or blank.
NoRegisteredEmail ==
    /\ request.delivery_method \in {"email", "both"}
    /\ authCheck.authorized
    /\ Trim(IF authCheck.user_info.email = Null THEN "" ELSE authCheck.user_info.email) = ""

\* C22: when e-mail delivery is asked for and the requester has no registered
\* e-mail, the e-mail result is the failure "No registered email" and no mail
\* is sent; the memo channel of a request for both is still tried, the request
\* returns to a running pump, and the pending record of the account is in the
\* store afterwards.
C22_NoRegisteredEmail ==
    NoRegisteredEmail =>
        /\ pc \in {"memo", "sendmemo", "summary"} =>
              /\ emailResult = [success |-> FALSE, error |-> "No registered email"]
              /\ "email" \notin attempted
              /\ \A m \in sent : m.channel = "email" => m.about # accountData.username
        /\ (pc = "summary" /\ request.delivery_method = "both") =>
              "canSendMemo" \in attempted
        /\ pc \notin {"usetoken", "remove"}
        /\ ~Returned("fulfilled")
        /\ Returned("stranded") =>
              /\ isRunning
              /\ "removePending" \notin attempted
              /\ Stored(PendingRecord(accountData))

\* The request in progress asks for delivery by memo.
MemoAsked == request.delivery_method \in {"hive_memo", "both"}

\* No transfer was broadcast for the account of the request in progress.
NoTransfer == \A m \in Memos : m.about # accountData.username

\* C23: sendAccountMemo is called, and a transfer broadcast, only for a request
\* that asks for a memo, after canSendMemo found at least 0.001 HBD and with
\* CREATING_ACCOUNT_MEMO_KEY set; a low balance gives the memo failure
\* "Insufficient HBD for memo transfer", a missing key the failure "Missing
\* faucet memo key", and neither broadcasts a transfer.
C23_MemoPreconditions ==
    /\ (pc = "sendmemo" \/ "sendAccountMemo" \in attempted) =>
         /\ MemoAsked
         /\ "canSendMemo" \in attempted
         /\ LowBalance \notin attempted
         /\ creatingMemoKey
    /\ Memos # {} => creatingMemoKey
    /\ (pc = "summary" /\ MemoAsked /\ LowBalance \in attempted) =>
         /\ memoResult = [success |-> FALSE,
                          error |-> "Insufficient HBD for memo transfer"]
         /\ NoTransfer
    /\ (pc = "summary" /\ MemoAsked /\ LowBalance \notin attempted /\ ~creatingMemoKey) =>
         /\ memoResult = [success |-> FALSE, error |-> "Missing faucet memo key"]
         /\ NoTransfer

\* A memo was asked for with enough HBD and no memo key: the channel failed
\* for the missing key.
C23_Witness ==
    /\ pc = "summary"
    /\ MemoAsked
    /\ "canSendMemo" \in attempted
    /\ LowBalance \notin attempted
    /\ ~creatingMemoKey
    /\ memoResult.error = "Missing faucet memo key"

\* C24: a process whose constructor loaded a cursor L > 0 from last_block.json
\* fetches L + 1 first; LAST_PROCESSED_BLOCK is the starting point only when no
\* such cursor was loaded, and the chain head only when there is neither.
C24_ResumeFromCursor ==
    /\ (resume.cursor > 0 /\ resume.first # 0) => resume.first = resume.cursor + 1
    /\ (resume.cursor = 0 /\ envBlock > 0 /\ resume.first # 0) =>
         resume.first = envBlock + 1
    /\ \A i \in Loops :
         loops[i].at = "props" => (resume.cursor = 0 /\ envBlock = 0)

\* A restarted process that found a cursor has issued its first getBlock.
C24_Witness ==
    /\ crashes = 1
    /\ resume.cursor > 0
    /\ resume.first = resume.cursor + 1

\* A step of the process that is not its end.
SameProcess == crashes' = crashes

\* C25: a getBlock that comes back empty or throws leaves isRunning, the cursor
\* and last_block.json as they are and puts its invocation to sleep, and while
\* isRunning holds the invocation that wakes up asks for the height it missed.
C25_MissRetriedForever ==
    /\ [][\A i \in Loops :
            (SameProcess /\ loops[i].at = "getBlock" /\ loops'[i].at \notin {"getBlock", "processBlock"})
                => /\ loops'[i].at = "sleep"
                   /\ UNCHANGED <<isRunning, lastProcessedBlock, lastBlockFile>>]_vars
    /\ [][\A i \in Loops :
            (SameProcess /\ loops[i].at = "sleep" /\ loops'[i].at # "sleep" /\ isRunning)
                => /\ loops'[i].at = "getBlock"
                   /\ loops'[i].nextBlock = loops[i].retry]_vars

\* The step is a call of stop(): POST /monitor/stop, or a signal handler.
Stops == PumpStop \/ PumpShutdown

\* C26: a call of stop() clears isRunning and, when there is a cursor, leaves
\* it in last_block.json unless the write fails; it leaves an invocation that
\* is inside processBlock where it is, to run to completion; and while
\* isRunning is false no invocation issues another getBlock: at the end of its
\* iteration it returns.
C26_StopAwaitsInFlight ==
    /\ [][Stops =>
            /\ ~isRunning'
            /\ lastBlockFile' \in {lastBlockFile, lastProcessedBlock}
            /\ \A i \in Loops :
                 loops[i].at = "processBlock" => loops'[i] = loops[i]]_vars
    /\ [][\A i \in Loops :
            (SameProcess /\ ~isRunning /\ ~isRunning' /\ loops'[i] # loops[i])
                => /\ loops'[i].at # "getBlock"
                   /\ loops[i].at \in {"props", "sleep", "processBlock"} => loops'[i] = Idle]_vars

\* C27: when the constructors could not put authorized_users.json and
\* pending_credentials.json in place, the monitor never runs and no account is
\* created.
C27_AbortsWhenUnwritable ==
    ~resume.prepared =>
        /\ ~isRunning
        /\ pc \in {"boot", "start", "aborted", "stopped"}
        /\ \A u \in Usernames : creations[u] = 0

\* The account whose authority signed the operation: the posting authority
\* when there is one, else the active authority.
SignedBy(operation) ==
    IF operation.required_posting_auths # <<>>
    THEN operation.required_posting_auths[1] ELSE operation.required_auths[1]

\* C28: whatever data.email, data.requester and data.notes say, the requester
\* of a request is the account that signed the operation: it is the account
\* whose authorization is checked, the only account whose quota record
\* changes, and the recipient of every memo; and every mail goes to the
\* address the quota ledger holds for it.
C28_IdentityFromSignature ==
    LET signer == SignedBy(ledgerOps[1]) IN
    /\ request # NoRequest => request.requester = signer
    /\ (snap # NoSnap /\ pc \notin {"auth", "block"}) =>
         authCheck = checkAuthorization(snap[1], signer)
    /\ \A m \in sent :
         /\ m.channel = "memo" => m.to = signer
         /\ m.channel = "email" =>
              (signer \in UserNames /\ m.to = ClaimedQuota.authorized_users[signer].email)
    /\ dataFile.ok =>
         \A u \in UserNames \ {signer} :
            dataFile.authorized_users[u] = ClaimedQuota.authorized_users[u]
    /\ tokenUses[1] > 0 => signer \in UserNames

\* A request signed by alice that names another address and another requester
\* was delivered by mail to the address registered for alice, and her token
\* was taken.
C28_Witness ==
    /\ ledgerOps[1].json.email = "mallory@example.org"
    /\ ledgerOps[1].json.requester = "bob"
    /\ \E m \in sent : m.channel = "email" /\ m.ok /\ m.to = "alice@example.org"
    /\ tokenUses[1] = 1
    /\ dataFile.ok /\ dataFile.authorized_users["alice"].tokens_remaining = 0

\* The pending records of the name the request in progress asks for.
RecordsFor(file) ==
    {r \in Range(loadPending(file)) : r.username = request.requested_username}

\* C29 as stated: after a request whose createHiveAccount failed, the pending
\* store holds no record of the requested name.
C29_NoRecordAfterFailedCreate ==
    Returned("create_failed") => RecordsFor(pendingFile) = {}

\* C29: a request whose createHiveAccount failed adds no pending record: the
\* records of the requested name in the store are those it held when the
\* request began, each of an account an earlier request created.
C29_FailedCreateAddsNoRecord ==
    Returned("create_failed") =>
        /\ RecordsFor(pendingFile) \subseteq RecordsFor(snap[2])
        /\ RecordsFor(pendingFile) # {} => creations[request.requested_username] > 0

\* A request failed at provisioning for a name whose earlier request created
\* the account and left its record in the store.
C29_Witness ==
    /\ Returned("create_failed")
    /\ RecordsFor(pendingFile) # {}
    /\ crashes = 0

\* C30: a request inside processAccountRequest names one of the three delivery
\* methods, so no account is created for a request naming another one.
C30_DeliveryMethodKnown ==
    pc \in {"auth", "create", "broadcast", "persist"} =>
        request.delivery_method \in Methods

\* C31: every step leaves pending_credentials.json either as it was or
\* readable and holding the complete new list of the addPending or
\* removePending in progress, a kill inside the write included.
C31_PendingReplacedAtomically ==
    [][\/ pendingFile' = pendingFile
       \/ /\ pendingFile'.ok
          /\ \/ /\ pc = "persist"
                /\ pendingFile' = addPending(pendingFile, PendingRecord(accountData), TRUE)
             \/ /\ pc = "remove"
                /\ pendingFile' = removePending(pendingFile, accountData.username, TRUE)]_vars

\* The step is the end of a processBlock: the cursor advances.
Processed == \E i \in Loops : PumpProcessed(i)

\* C32: the step that ends the processing of height n writes n to
\* last_block.json when n is a multiple of blockSaveInterval and leaves the
\* file alone otherwise; stop() writes the cursor when it is above 0; and once
\* this process has saved, the file is fewer than blockSaveInterval heights
\* behind the cursor.
C32_CursorSavedOnInterval ==
    /\ [][Processed =>
            IF lastProcessedBlock' % blockSaveInterval = 0
            THEN lastBlockFile' = lastProcessedBlock'
            ELSE lastBlockFile' = lastBlockFile]_vars
    /\ [][(Stops /\ lastProcessedBlock > 0) => lastBlockFile' = lastProcessedBlock]_vars
    /\ [](lastSavedBlock > 0 => lastProcessedBlock - lastBlockFile < blockSaveInterval)

\* processBlock takes the operation at opIdx: it is skipped, or dispatched as
\* a request of its signer.
TakesOperation ==
    /\ nextBlock' = nextBlock
    /\ lastProcessedBlock' = lastProcessedBlock
    /\ \/ pc' = "block" /\ opIdx' = opIdx + 1
       \/ /\ pc' = "auth"
          /\ opIdx' = opIdx
          /\ request'.requester = requesterOf(OpAt(nextBlock, opIdx))

\* processAccountRequest goes on, or returns to processBlock, which moves to
\* the next operation.
GoesOnOrReturns ==
    /\ nextBlock' = nextBlock
    /\ lastProcessedBlock' = lastProcessedBlock
    /\ \/ InRequest' /\ pc' # "auth" /\ opIdx' = opIdx
       \/ pc' = "block" /\ opIdx' = opIdx + 1

\* C33: in a run without crashes the operations of a fetched block are taken
\* one by one, each once: an operation is skipped or dispatched and the next
\* one follows; a request that returns, in whatever way, is followed by the
\* next operation of the same block and is not taken up again; and the cursor
\* goes past every block that was fetched.
C33_FailureIsTerminal ==
    /\ [][(pc = "block" /\ opIdx <= BlockLen(nextBlock)) => TakesOperation]_vars
    /\ [][InRequest => GoesOnOrReturns]_vars
    /\ \A h \in 1..MaxHeight :
          (pc = "block" /\ nextBlock = h) ~> (lastProcessedBlock = h /\ pc = "loop")

\* The first request of a block created its account and delivered nothing,
\* and the second request of the block is being processed.
C33_Witness ==
    /\ pc = "auth"
    /\ opIdx = 2
    /\ creations["newuser1"] = 1
    /\ "newuser1" \notin delivered
    /\ request.requested_username = "newuser2"

\* A transport call of the channel for the account of the request in progress
\* completed: sendMail resolved, or the transfer was broadcast.
Transported(channel) ==
    \E x \in sent : x.channel = channel /\ x.about = accountData.username /\ x.ok

\* C34: the e-mail result is a success only if sendMail resolved, the memo
\* result is a success only if the transfer that carries the memo was
\* broadcast, and a token is deducted only after one of the two.
C34_SuccessMeansTransported ==
    /\ emailResult.success => Transported("email")
    /\ memoResult.success => Transported("memo")
    /\ (pc \in {"usetoken", "remove"} \/ tokenUsed) =>
           (Transported("email") \/ Transported("memo"))

\* A token was deducted for a request whose only successful channel was the
\* memo transfer.
C34_Witness ==
    /\ pc = "remove"
    /\ tokenUsed
    /\ memoResult.success
    /\ ~emailResult.success
    /\ Transported("memo")

\* The accounts the faucet created on behalf of a requester: the creations of
\* the names that requester's requests ask for.
CreatedFor(r) ==
    SumOf([u \in Usernames |->
             IF \E i \in RequestsFor(u) : requesterOf(ledgerOps[i]) = r
             THEN creations[u] ELSE 0], Usernames)

\* tokens_allocated of a requester; a signer the quota ledger does not hold
\* has none.
AllocatedTo(r) ==
    IF r \in QuotaUsers THEN dataFile.authorized_users[r].tokens_allocated ELSE 0

\* C35: the accounts created on behalf of a requester never outnumber the
\* requester's tokens_allocated.
C35_CreationsWithinAllocation ==
    dataFile.ok => \A r \in Requesters : CreatedFor(r) <= AllocatedTo(r)

\* C36: pending_credentials.json holds at most one record of a username.
C36_OneRecordPerUsername ==
    LET list == loadPending(pendingFile) IN
    \A i \in DOMAIN list : \A j \in DOMAIN list :
        list[i].username = list[j].username => i = j

\* After a crash the block was processed again: the request for a name whose
\* record is in the store has been refused at provisioning.
C36_Witness ==
    /\ crashes = 1
    /\ Returned("create_failed")
    /\ request.requested_username \in PendingNames(pendingFile)

\* C37: within one process the cursor never decreases and the end of a
\* processBlock raises it by exactly 1, and in the first process no invocation
\* enters processBlock for a height whose processBlock has completed or is
\* under way.
C37_HeightsConsecutive ==
    /\ [][SameProcess => lastProcessedBlock' >= lastProcessedBlock]_vars
    /\ [][Processed => lastProcessedBlock' = lastProcessedBlock + 1]_vars
    /\ [][\A i \in Loops :
            (crashes' = 0 /\ loops[i].at = "getBlock" /\ loops'[i].at = "processBlock")
                => /\ loops[i].nextBlock \notin completed
                   /\ \A j \in Loops :
                        loops[j].at = "processBlock" => loops[j].nextBlock # loops[i].nextBlock]_vars

\* The records the file holds under other names than u.
OthersOf(file, u) == {r \in Range(file.pending) : r.username # u}

\* C38: addPending and removePending keep every record of another username
\* that the file held before the call, also when the file could not be read
\* or parsed at the time of the call.
C38_OtherRecordsKept ==
    [][\A u \in Usernames :
         ((\E requester \in Requesters : \E i \in DOMAIN Passwords :
              StoreAdd(u, requester, Passwords[i])) \/ StoreRemove(u))
            => OthersOf(pendingFile, u) \subseteq Range(pendingFile'.pending)]_vars

\* After a restart, the request in progress asks for a name whose account the
\* faucet created before this request was dispatched.
Replayed ==
    /\ crashes > 0
    /\ request # NoRequest
    /\ creations[request.requested_username] > 0
    /\ "sendOperations" \notin attempted

\* C39 as stated: the replayed request of an account created in the first
\* pass fails at provisioning, leaving the quota ledger and the pending store
\* as they were.
C39_ReplayFailsAtProvisioning ==
    (Replayed /\ pc = "block") =>
        /\ outcome = "create_failed"
        /\ dataFile = snap[1]
        /\ pendingFile = snap[2]

\* C39: the replayed request of an account created in the first pass goes no
\* further than createHiveAccount: it is rejected at authorization (the first
\* pass spent the requester's last token) or fails at provisioning, and the
\* quota ledger and the pending store stay as they were when it began.
C39_ReplayIsIdempotent ==
    Replayed =>
        /\ \/ pc \in {"auth", "create"}
           \/ Returned("unauthorized")
           \/ Returned("create_failed")
        /\ dataFile = snap[1]
        /\ pendingFile = snap[2]

\* The first pass delivered the account and spent the token; the replayed
\* request was rejected at authorization.
C39_Witness ==
    /\ Replayed
    /\ Returned("unauthorized")
    /\ request.requested_username \in delivered
    /\ dataFile.ok

====
